---- MODULE Spec2Model ----
(***************************************************************************)
(* A model of the AI Trends Discord bot (src/agents/ai-trends/bot.js).     *)
(*                                                                         *)
(* The six source fetchers are pure functions of the responses their HTTP  *)
(* requests get; they are exercised by SpecFetch, whose initial states     *)
(* draw a fetcher, a limit and the responses.                              *)
(*                                                                         *)
(* Units.  Elapsed times of the fetchers are integers counted in units of  *)
(* 1/AgeUnitsPerHour hour.  The rate fields pointsPerHour and scorePerHour *)
(* (one decimal in the code) are integers counted in tenths.               *)
(***************************************************************************)
EXTENDS Integers, Sequences, FiniteSets, TLC

VARIABLES
    fetcher,    \* SpecFetch: the fetcher under exercise
    limit,      \* SpecFetch: its limit argument
    response,   \* SpecFetch: what the fetcher's requests return
    promise,    \* SpecFetch: the promise the call returned, or Pending
    pc,         \* SpecReport: where generateTrendReport stands
    calls,      \* SpecReport: the promise of each fetcher call
    served,     \* SpecReport: how each source answered: "none", "down" or "up"
    report,     \* SpecReport: the sections of the report returned
    slow,       \* SpecReport: the sources that never respond
    sends,      \* SpecReport: the target.send calls of pushReport, in order
    pushed,     \* SpecReport: what pushReport returned: "none" while it runs
    subscribers,    \* the Map subscribers: its keys in insertion order
    lastCmd,        \* history: each user's last subscription command
    handled,        \* history: the number of commands that changed the Map subscribers
    clock,          \* SpecPush: the last wall-clock reading, in minutes
    localOffset,    \* SpecPush: the process time zone's offset, in minutes
    defaultChannel, \* SpecPush: whether config.defaultChannelId is set
    pushedSlots,    \* the Set pushedSlots: its keys in insertion order
    rounds,         \* SpecPush: the checkScheduledPush calls at an await
    started,        \* history: the push rounds started per slot
    received,       \* history: the scheduled reports sent per target and slot
    attempted,      \* history: the deliveries attempted per target and slot
    steady,         \* history: per slot, the subscribers at the round's start still subscribed
    finished,       \* history: per slot "none", or how far its round is: "running", "returned", "threw"
    change,         \* history: per slot and user, the user's subscription change during the round
    now,                \* SpecDedup: the time, in milliseconds
    processedMessages,  \* the Set processedMessages
    timers,             \* SpecDedup: the pending setTimeout callbacks
    inHandler,          \* SpecDedup: the messages whose handleMessage is at an await
    firstAt,            \* history: when the first event of each message id arrived
    invoked,            \* history: handleMessage calls per id within DEDUP_TIMEOUT of the first event
    lastEventAt,        \* history: when the latest event arrived
    arrived,            \* history: the message ids an event of which has arrived
    dupWhileHandling,   \* history: ids a duplicate of which arrived during handleMessage
    hpc,        \* SpecCommand: where handleMessage stands
    typed,      \* SpecCommand: the text handleMessage was called with
    branch,     \* history: the command branches that ran, in order
    fetched,    \* history: the fetcher calls handleMessage made, in order
    got,        \* SpecCommand: what the fetcher returned
    replies,    \* history: the message.reply calls, in order
    rpc,            \* SpecReply: where getAIReply stands
    userMessage,    \* SpecReply: the argument of getAIReply
    searchResp,     \* SpecReply: what the search request gets
    complResp,      \* SpecReply: what the completion request gets
    requests,       \* history: the requests getAIReply and webSearch sent, in order
    aiReply,        \* SpecReply: the completion of getAIReply, or Running
    repoDir,        \* SpecSync: the mapped directories of the repo
    openclawDir,    \* SpecSync: the mapped directories of ~/.openclaw
    lastOps,        \* history: the last two commands of the sync script run
    pushRepo,       \* history: the repo directories before the latest push
    pushLocal       \* history: the ~/.openclaw directories before the latest push

fetchVars == <<fetcher, limit, response, promise>>

reportVars == <<pc, calls, served, report, slow, sends, pushed>>

subVars == <<subscribers, lastCmd, handled>>

pushVars == <<clock, localOffset, defaultChannel, pushedSlots, rounds, started, received,
              attempted, steady, finished, change>>

dedupVars == <<now, processedMessages, timers, inHandler, firstAt, invoked, lastEventAt,
               arrived, dupWhileHandling>>

cmdVars == <<hpc, typed, branch, fetched, got, replies>>

replyVars == <<rpc, userMessage, searchResp, complResp, requests, aiReply>>

syncVars == <<repoDir, openclawDir, lastOps, pushRepo, pushLocal>>

skillVars == <<replyVars, syncVars>>

botVars == <<subVars, pushVars, dedupVars, cmdVars, skillVars>>

vars == <<fetchVars, reportVars, botVars>>

----------------------------------------------------------------------------
(* Bounds of the model *)

\* the fetchers are called with limits 1..MaxLimit
MaxLimit == 3
\* a response body lists at most MaxRows rows drawn from the sample rows
MaxRows == 2
\* resolution of elapsed time: units per hour
AgeUnitsPerHour == 4
\* at most MaxCommands commands change the Map subscribers
MaxCommands == 2
\* message events are followed up to the time MaxTime, in steps of TimeStep
MaxTime == 15000
TimeStep == 2500

----------------------------------------------------------------------------
(* JavaScript helpers *)

Min(a, b) == IF a <= b THEN a ELSE b

Max(a, b) == IF a >= b THEN a ELSE b

\* Math.round(n / d) for d > 0: the nearest integer, halves rounded up
MathRound(n, d) == (2 * n + d) \div (2 * d)

\* Array.prototype.slice(0, n)
Slice(s, n) == SubSeq(s, 1, Min(n, Len(s)))

\* the sequences over S of length at most n
SeqsUpTo(S, n) == UNION {[1..k -> S] : k \in 0..n}

\* Completion of a function body: a normal return or a thrown exception
Return(v) == [type |-> "return", value |-> v]

Throw == [type |-> "throw", value |-> <<>>]

\* the try block without its catch: the exception escapes
Rethrow(c) == c

\* try { body } catch (error) { console.error(...); return []; }
TryCatchReturnEmpty(c) == IF c.type = "throw" THEN Return(<<>>) ELSE c

\* the promise of an async function whose body completed with c
AsyncResult(c) ==
    IF c.type = "return"
    THEN [state |-> "fulfilled", value |-> c.value]
    ELSE [state |-> "rejected", value |-> <<>>]

Pending == [state |-> "pending", value |-> <<>>]

\* one step of the stable insertion: p goes after every element whose key is
\* at least its own (the comparator b.key - a.key is <= 0 for them)
InsertDesc(sorted, p) ==
    LET n == Cardinality({i \in 1..Len(sorted) : sorted[i].key >= p.key})
    IN  SubSeq(sorted, 1, n) \o <<p>> \o SubSeq(sorted, n + 1, Len(sorted))

RECURSIVE SortPairsDesc(_)
SortPairsDesc(s) ==
    IF s = <<>> THEN <<>>
    ELSE InsertDesc(SortPairsDesc(SubSeq(s, 1, Len(s) - 1)), s[Len(s)])

\* results.sort((a, b) => key(b) - key(a)), keys[i] being the key of s[i]:
\* Array.prototype.sort is stable
SortDescBy(s, keys) ==
    LET pairs  == [i \in 1..Len(s) |-> [key |-> keys[i], rec |-> s[i]]]
        sorted == SortPairsDesc(pairs)
    IN  [i \in 1..Len(s) |-> sorted[i].rec]

\* an HTTP response: the request threw, the status was not OK, the body could
\* not be parsed, or it was OK with the rows given
Failed(st) == [st |-> st, rows |-> <<>>]

Ok(rows) == [st |-> "ok", rows |-> rows]

----------------------------------------------------------------------------
(* fetchGitHubTrending *)

HotOssStars == 500

HotSearchStars == 10000

DaysPerMonth == 30

\* rows of the OSS Insight response: repo_name, stars (numeric says whether
\* parseInt(stars) is a number), and whether the AI keyword filter matches
OssRepos ==
    { [name |-> "a", stars |-> 600, numeric |-> TRUE,  ai |-> TRUE],
      [name |-> "b", stars |-> 450, numeric |-> TRUE,  ai |-> TRUE],
      [name |-> "c", stars |-> 900, numeric |-> TRUE,  ai |-> FALSE],
      [name |-> "d", stars |-> 0,   numeric |-> FALSE, ai |-> TRUE] }

\* items of a GitHub Search response: full_name, stargazers_count
SearchItemA == [name |-> "a", count |-> 30000]

SearchItemE == [name |-> "e", count |-> 12000]

SearchItemF == [name |-> "f", count |-> 9000]

SearchItemG == [name |-> "g", count |-> 15045]

SearchResponses ==
    { Failed("throw"), Failed("notok"), Failed("badjson"),
      Ok(<<>>), Ok(<<SearchItemE>>), Ok(<<SearchItemF, SearchItemA>>),
      Ok(<<SearchItemG, SearchItemE, SearchItemF>>) }

SearchQueries == 3

GitHubResponses ==
    [ oss    : {Failed("throw"), Failed("notok"), Failed("badjson")}
                 \cup {Ok(rows) : rows \in SeqsUpTo(OssRepos, MaxRows)},
      search : [1..SearchQueries -> SearchResponses] ]

\* parseInt(repo.stars) || 0
ParseIntOr0(repo) == IF repo.numeric THEN repo.stars ELSE 0

OssRecord(repo) ==
    [ name       |-> repo.name,
      stars      |-> ParseIntOr0(repo),
      starsToday |-> ParseIntOr0(repo),
      isHot      |-> repo.numeric /\ repo.stars > HotOssStars,
      via        |-> "oss" ]

\* the Search record flagged by its rate against the OSS Insight threshold
SearchRecordHotByRate(item) ==
    [ name       |-> item.name,
      stars      |-> item.count,
      starsToday |-> MathRound(item.count, DaysPerMonth),
      isHot      |-> MathRound(item.count, DaysPerMonth) > HotOssStars,
      via        |-> "search" ]

SearchRecord(item) ==
    [ name       |-> item.name,
      stars      |-> item.count,
      starsToday |-> MathRound(item.count, DaysPerMonth),
      isHot      |-> item.count > HotSearchStars,
      via        |-> "search" ]

IsAiRepo(repo) == repo.ai

\* method 1: the inner try block; any failure leaves results empty
OssResults(lim, oss) ==
    IF oss.st = "ok"
    THEN LET aiRepos == Slice(SelectSeq(oss.rows, IsAiRepo), lim)
         IN  [i \in 1..Len(aiRepos) |-> OssRecord(aiRepos[i])]
    ELSE <<>>

\* for (const repo of data.items) if (!results.find(...)) results.push(...)
RECURSIVE PushSearchItems(_, _)
PushSearchItems(results, items) ==
    IF items = <<>> THEN results
    ELSE LET item == Head(items)
             seen == \E i \in 1..Len(results) : results[i].name = item.name
         IN  PushSearchItems(
                 IF seen THEN results ELSE Append(results, SearchRecord(item)),
                 Tail(items))

\* method 2: for (const q of queries) { if (results.length >= limit) break; ... }
RECURSIVE SearchLoop(_, _, _, _)
SearchLoop(results, q, lim, search) ==
    IF q > SearchQueries \/ Len(results) >= lim THEN Return(results)
    ELSE IF search[q].st \in {"throw", "badjson"} THEN Throw
    ELSE IF search[q].st = "ok"
         THEN SearchLoop(PushSearchItems(results, search[q].rows), q + 1, lim, search)
    ELSE SearchLoop(results, q + 1, lim, search)

StarsTodayOr0(r) == r.starsToday

\* the merged results returned in push order
GitHubUnsorted(results) == results

GitHubSort(results) ==
    SortDescBy(results, [i \in 1..Len(results) |-> StarsTodayOr0(results[i])])

GitHubBody(lim, resp) ==
    LET first  == OssResults(lim, resp.oss)
        second == IF Len(first) < lim
                  THEN SearchLoop(first, 1, lim, resp.search)
                  ELSE Return(first)
    IN  IF second.type = "throw" THEN Throw
        ELSE Return(Slice(GitHubSort(second.value), lim))

fetchGitHubTrending(lim, resp) == AsyncResult(TryCatchReturnEmpty(GitHubBody(lim, resp)))

----------------------------------------------------------------------------
(* fetchHackerNews *)

HotPointsPerHour == 20

\* hits of the Algolia response: whether the AI keyword filter matches,
\* points, and the age now - created_at_i in time units
HNItems ==
    { [ai |-> TRUE,  points |-> 421, age |-> 21 * AgeUnitsPerHour],
      [ai |-> TRUE,  points |-> 420, age |-> 21 * AgeUnitsPerHour],
      [ai |-> TRUE,  points |-> 30,  age |-> 2],
      [ai |-> FALSE, points |-> 500, age |-> AgeUnitsPerHour],
      [ai |-> TRUE,  points |-> 25,  age |-> 10 * AgeUnitsPerHour + 1] }

HNResponses ==
    {Failed("throw"), Failed("notok"), Failed("badjson")}
        \cup {Ok(rows) : rows \in SeqsUpTo(HNItems, MaxRows)}

\* Math.max(1, age / 3600), as a number of time units
AgeClamped(age) == Max(AgeUnitsPerHour, age)

HNRecord(item) ==
    [ points        |-> item.points,
      pointsPerHour |-> MathRound(10 * item.points * AgeUnitsPerHour, AgeClamped(item.age)),
      ageHours      |-> MathRound(AgeClamped(item.age), AgeUnitsPerHour),
      isHot         |-> item.points * AgeUnitsPerHour > HotPointsPerHour * AgeClamped(item.age) ]

IsAiStory(item) == item.ai

PointsPerHourOf(r) == r.pointsPerHour

HNSort(stories) ==
    SortDescBy(stories, [i \in 1..Len(stories) |-> PointsPerHourOf(stories[i])])

HNBody(lim, resp) ==
    IF resp.st \in {"throw", "badjson"} THEN Throw
    ELSE IF resp.st # "ok" THEN Return(<<>>)
    ELSE LET aiStories == SelectSeq(resp.rows, IsAiStory)
             mapped    == [i \in 1..Len(aiStories) |-> HNRecord(aiStories[i])]
         IN  Return(Slice(HNSort(mapped), lim))

fetchHackerNews(lim, resp) == AsyncResult(TryCatchReturnEmpty(HNBody(lim, resp)))

----------------------------------------------------------------------------
(* fetchReddit *)

HotScorePerHour == 50

Subreddits == 5

RedditWindowHours == 24

\* children of a listing: score, age now - created_utc in time units, and
\* whether data.title is a string (substring of a missing title throws)
PostHot == [score |-> 1051, age |-> 21 * AgeUnitsPerHour, titled |-> TRUE]

PostEven == [score |-> 1050, age |-> 21 * AgeUnitsPerHour, titled |-> TRUE]

PostFresh == [score |-> 300, age |-> 2, titled |-> TRUE]

PostOld == [score |-> 9000, age |-> 30 * AgeUnitsPerHour, titled |-> FALSE]

PostUntitled == [score |-> 90, age |-> 3 * AgeUnitsPerHour, titled |-> FALSE]

RedditListings ==
    { Failed("throw"), Failed("notok"),
      Ok(<<PostOld, PostEven>>), Ok(<<PostHot, PostFresh>>), Ok(<<PostUntitled>>) }

RedditResponses == [1..Subreddits -> RedditListings]

IsRecentPost(p) == p.age < RedditWindowHours * AgeUnitsPerHour

RedditRecord(p) ==
    [ score        |-> p.score,
      scorePerHour |-> MathRound(10 * p.score * AgeUnitsPerHour, AgeClamped(p.age)),
      ageHours     |-> MathRound(AgeClamped(p.age), AgeUnitsPerHour),
      isHot        |-> p.score * AgeUnitsPerHour > HotScorePerHour * AgeClamped(p.age) ]

\* the filter().map() of one listing; the map throws on a post without title
ListingPosts(rows) ==
    LET recent == SelectSeq(rows, IsRecentPost)
    IN  IF \E i \in 1..Len(recent) : ~recent[i].titled THEN Throw
        ELSE Return([i \in 1..Len(recent) |-> RedditRecord(recent[i])])

\* the loop with a try/catch of its own around each request: a request that
\* throws is skipped like one with a non-OK status
RECURSIVE SubredditLoopSkipping(_, _, _)
SubredditLoopSkipping(allPosts, s, resp) ==
    IF s > Subreddits THEN Return(allPosts)
    ELSE IF resp[s].st # "ok" THEN SubredditLoopSkipping(allPosts, s + 1, resp)
    ELSE LET posts == ListingPosts(resp[s].rows)
         IN  IF posts.type = "throw" THEN Throw
             ELSE SubredditLoopSkipping(allPosts \o posts.value, s + 1, resp)

\* for (const sub of subreddits) { ... allPosts.push(...posts) ... }
RECURSIVE SubredditLoop(_, _, _)
SubredditLoop(allPosts, s, resp) ==
    IF s > Subreddits THEN Return(allPosts)
    ELSE IF resp[s].st \in {"throw", "badjson"} THEN Throw
    ELSE IF resp[s].st # "ok" THEN SubredditLoop(allPosts, s + 1, resp)
    ELSE LET posts == ListingPosts(resp[s].rows)
         IN  IF posts.type = "throw" THEN Throw
             ELSE SubredditLoop(allPosts \o posts.value, s + 1, resp)

ScorePerHourOf(r) == r.scorePerHour

RedditSort(posts) ==
    SortDescBy(posts, [i \in 1..Len(posts) |-> ScorePerHourOf(posts[i])])

RedditBody(lim, resp) ==
    LET all == SubredditLoop(<<>>, 1, resp)
    IN  IF all.type = "throw" THEN Throw
        ELSE Return(Slice(RedditSort(all.value), lim))

fetchReddit(lim, resp) == AsyncResult(TryCatchReturnEmpty(RedditBody(lim, resp)))

----------------------------------------------------------------------------
(* fetchArxiv *)

ArxivWindowHours == 48

NewWindowHours == 24

\* entries of the Atom feed: id (the link), whether title and link matched,
\* whether <published> is a date, and the age now - pubDate in time units
ArxivEntries ==
    { [id |-> 1, valid |-> TRUE,  dated |-> TRUE,  age |-> 2 * AgeUnitsPerHour],
      [id |-> 2, valid |-> TRUE,  dated |-> TRUE,  age |-> 30 * AgeUnitsPerHour],
      [id |-> 3, valid |-> TRUE,  dated |-> TRUE,  age |-> 50 * AgeUnitsPerHour],
      [id |-> 4, valid |-> FALSE, dated |-> TRUE,  age |-> AgeUnitsPerHour],
      [id |-> 5, valid |-> TRUE,  dated |-> FALSE, age |-> 0],
      [id |-> 6, valid |-> TRUE,  dated |-> TRUE,  age |-> 2 * AgeUnitsPerHour + 1] }

ArxivResponses ==
    {Failed("throw"), Failed("notok"), Failed("badtext")}
        \cup {Ok(rows) : rows \in SeqsUpTo(ArxivEntries, MaxRows)}

\* title && link, and hoursAgo <= 48 (false for an invalid date: NaN <= 48)
ArxivKept(e) == e.valid /\ e.dated /\ e.age <= ArxivWindowHours * AgeUnitsPerHour

ArxivRecord(e) ==
    [ id       |-> e.id,
      hoursAgo |-> MathRound(e.age, AgeUnitsPerHour),
      isNew    |-> e.age <= NewWindowHours * AgeUnitsPerHour ]

\* the paper put in front of the earlier ones
ArxivUnshift(papers, e) == <<ArxivRecord(e)>> \o papers

ArxivPush(papers, e) == Append(papers, ArxivRecord(e))

\* the break taken one paper late
ArxivFullLate(papers, lim) == Len(papers) > lim

ArxivFull(papers, lim) == Len(papers) >= lim

\* for (const entry of entries) { ...; if (papers.length >= limit) break; }
RECURSIVE ArxivLoop(_, _, _)
ArxivLoop(papers, entries, lim) ==
    IF entries = <<>> THEN papers
    ELSE LET e    == Head(entries)
             next == IF ArxivKept(e) THEN ArxivPush(papers, e) ELSE papers
         IN  IF ArxivFull(next, lim) THEN next
             ELSE ArxivLoop(next, Tail(entries), lim)

ArxivBody(lim, resp) ==
    IF resp.st \in {"throw", "badtext"} THEN Throw
    ELSE IF resp.st # "ok" THEN Return(<<>>)
    ELSE Return(ArxivLoop(<<>>, resp.rows, lim))

fetchArxiv(lim, resp) == AsyncResult(TryCatchReturnEmpty(ArxivBody(lim, resp)))

----------------------------------------------------------------------------
(* fetchHuggingFace *)

HotModelLikes == 100

HotSpaceLikes == 50

ModelSlice == 4

SpaceSlice == 3

\* models: id, whether tags or id match the AI filter, likes7d (0 when absent)
HFModels ==
    { [id |-> "m1", ai |-> TRUE,  likes7d |-> 120],
      [id |-> "m2", ai |-> TRUE,  likes7d |-> 80],
      [id |-> "m3", ai |-> FALSE, likes7d |-> 500],
      [id |-> "m4", ai |-> TRUE,  likes7d |-> 0] }

HFSpaces ==
    { [id |-> "s1", likes7d |-> 60],
      [id |-> "s2", likes7d |-> 40],
      [id |-> "s3", likes7d |-> 150] }

HFManyModels ==
    << [id |-> "m4", ai |-> TRUE, likes7d |-> 0],   [id |-> "m2", ai |-> TRUE, likes7d |-> 80],
       [id |-> "m3", ai |-> FALSE, likes7d |-> 500], [id |-> "m1", ai |-> TRUE, likes7d |-> 120],
       [id |-> "m2", ai |-> TRUE, likes7d |-> 80],  [id |-> "m1", ai |-> TRUE, likes7d |-> 120] >>

HFManySpaces ==
    << [id |-> "s2", likes7d |-> 40], [id |-> "s1", likes7d |-> 60],
       [id |-> "s2", likes7d |-> 40], [id |-> "s3", likes7d |-> 150] >>

HFResponses ==
    [ models : {Failed("throw"), Failed("notok"), Failed("badjson"), Ok(HFManyModels)}
                 \cup {Ok(rows) : rows \in SeqsUpTo(HFModels, MaxRows)},
      spaces : {Failed("throw"), Failed("notok"), Failed("badjson"), Ok(HFManySpaces)}
                 \cup {Ok(rows) : rows \in SeqsUpTo(HFSpaces, MaxRows)} ]

IsAiModel(m) == m.ai

HFModelRecord(m) ==
    [ type |-> "Model", name |-> m.id, likes7d |-> m.likes7d,
      isHot |-> m.likes7d > HotModelLikes ]

HFSpaceRecord(s) ==
    [ type |-> "Space", name |-> s.id, likes7d |-> s.likes7d,
      isHot |-> s.likes7d > HotSpaceLikes ]

HFModelResults(res) ==
    IF res.st = "ok"
    THEN LET aiModels == Slice(SelectSeq(res.rows, IsAiModel), ModelSlice)
         IN  [i \in 1..Len(aiModels) |-> HFModelRecord(aiModels[i])]
    ELSE <<>>

HFSpaceResults(res) ==
    IF res.st = "ok"
    THEN LET spaces == Slice(res.rows, SpaceSlice)
         IN  [i \in 1..Len(spaces) |-> HFSpaceRecord(spaces[i])]
    ELSE <<>>

Likes7dOf(r) == r.likes7d

HFSort(results) ==
    SortDescBy(results, [i \in 1..Len(results) |-> Likes7dOf(results[i])])

HFBody(lim, resp) ==
    IF resp.models.st = "throw" \/ resp.spaces.st = "throw" THEN Throw
    ELSE IF resp.models.st = "badjson" THEN Throw
    ELSE IF resp.spaces.st = "badjson" THEN Throw
    ELSE Return(Slice(HFSort(HFModelResults(resp.models) \o HFSpaceResults(resp.spaces)), lim))

fetchHuggingFace(lim, resp) == AsyncResult(TryCatchReturnEmpty(HFBody(lim, resp)))

----------------------------------------------------------------------------
(* fetchProductHunt *)

Feeds == 2

\* items of an RSS feed: id (the link), whether <link> matched, whether
\* <pubDate> is present, and the age now - pub in time units
PHItems ==
    { [id |-> 1, linked |-> TRUE,  dated |-> TRUE,  age |-> 3 * AgeUnitsPerHour],
      [id |-> 2, linked |-> TRUE,  dated |-> TRUE,  age |-> 30 * AgeUnitsPerHour],
      [id |-> 3, linked |-> FALSE, dated |-> TRUE,  age |-> AgeUnitsPerHour],
      [id |-> 4, linked |-> TRUE,  dated |-> FALSE, age |-> 0] }

PHFeedResponses ==
    {Failed("throw"), Failed("notok"), Failed("badtext")}
        \cup {Ok(rows) : rows \in SeqsUpTo(PHItems, MaxRows)}

PHResponses == [1..Feeds -> PHFeedResponses]

\* const pub = pubDate ? new Date(pubDate) : now
PHHoursAgo(item) == IF item.dated THEN MathRound(item.age, AgeUnitsPerHour) ELSE 0

PHRecord(item) ==
    [ id       |-> item.id,
      url      |-> item.linked,
      hoursAgo |-> PHHoursAgo(item),
      isNew    |-> PHHoursAgo(item) <= NewWindowHours ]

HasUrl(p) == p.url

\* items.slice(0, limit).map(...).filter(p => p.url)
PHProducts(items, lim) ==
    LET head == Slice(items, lim)
    IN  SelectSeq([i \in 1..Len(head) |-> PHRecord(head[i])], HasUrl)

\* for (const feedUrl of sources) { try { ... } catch (e) { continue; } }
RECURSIVE FeedLoop(_, _, _)
FeedLoop(f, lim, resp) ==
    IF f > Feeds THEN Return(<<>>)
    ELSE IF resp[f].st = "ok" /\ Len(resp[f].rows) > 0
         THEN Return(PHProducts(resp[f].rows, lim))
    ELSE FeedLoop(f + 1, lim, resp)

PHBody(lim, resp) == FeedLoop(1, lim, resp)

fetchProductHunt(lim, resp) == AsyncResult(TryCatchReturnEmpty(PHBody(lim, resp)))

----------------------------------------------------------------------------
(* generateTrendReport *)

Fetchers == {"github", "hackerNews", "reddit", "arxiv", "huggingface", "productHunt"}

\* the calls in the array given to Promise.all, in order
CallOrder == <<"github", "hackerNews", "reddit", "arxiv", "huggingface", "productHunt">>

\* the names the array of results is destructured into, in order
SectionOrder == <<"github", "hackerNews", "reddit", "arxiv", "huggingface", "productHunt">>

\* the limit each fetcher is called with
ReportLimit(f) ==
    CASE f = "github"      -> 6
      [] f = "hackerNews"  -> 6
      [] f = "reddit"      -> 5
      [] f = "arxiv"       -> 4
      [] f = "huggingface" -> 5
      [] f = "productHunt" -> 3

FetchOf(f, lim, resp) ==
    CASE f = "github"      -> fetchGitHubTrending(lim, resp)
      [] f = "hackerNews"  -> fetchHackerNews(lim, resp)
      [] f = "reddit"      -> fetchReddit(lim, resp)
      [] f = "arxiv"       -> fetchArxiv(lim, resp)
      [] f = "huggingface" -> fetchHuggingFace(lim, resp)
      [] f = "productHunt" -> fetchProductHunt(lim, resp)

\* what a source answers during a report: every request throws, or a sample
SourceDown(f) ==
    CASE f = "github"      -> [oss |-> Failed("throw"), search |-> [q \in 1..SearchQueries |-> Failed("throw")]]
      [] f = "hackerNews"  -> Failed("throw")
      [] f = "reddit"      -> [s \in 1..Subreddits |-> Failed("throw")]
      [] f = "arxiv"       -> Failed("throw")
      [] f = "huggingface" -> [models |-> Failed("throw"), spaces |-> Failed("throw")]
      [] f = "productHunt" -> [k \in 1..Feeds |-> Failed("throw")]

SourceUp(f) ==
    CASE f = "github"      -> [oss |-> Ok(<<[name |-> "b", stars |-> 450, numeric |-> TRUE, ai |-> TRUE]>>),
                               search |-> [q \in 1..SearchQueries |-> Ok(<<SearchItemE>>)]]
      [] f = "hackerNews"  -> Ok(<<[ai |-> TRUE, points |-> 30, age |-> 2]>>)
      [] f = "reddit"      -> [s \in 1..Subreddits |-> Ok(<<PostHot, PostFresh>>)]
      [] f = "arxiv"       -> Ok(<<[id |-> 1, valid |-> TRUE, dated |-> TRUE, age |-> 2 * AgeUnitsPerHour]>>)
      [] f = "huggingface" -> [models |-> Ok(HFManyModels), spaces |-> Failed("notok")]
      [] f = "productHunt" -> [k \in 1..Feeds |-> Ok(<<[id |-> 1, linked |-> TRUE, dated |-> TRUE, age |-> 3 * AgeUnitsPerHour]>>)]

SourceAnswers == {"down", "up"}

SourceAnswer(f, a) == IF a = "up" THEN SourceUp(f) ELSE SourceDown(f)

NotCalled == [state |-> "notcalled", value |-> <<>>]

ReportIdle ==
    /\ pc = "idle"
    /\ calls = [f \in Fetchers |-> NotCalled]
    /\ served = [f \in Fetchers |-> "none"]
    /\ report = [f \in Fetchers |-> <<>>]
    /\ slow = {}
    /\ sends = <<>>
    /\ pushed = "none"

\* Promise.all rejects at the first rejection (never reached in this model:
\* no fetcher rejects)
AnyRejected == \E f \in Fetchers : calls[f].state = "rejected"

\* the join waits for one source less than were called
PromiseAllButOne ==
    Cardinality({f \in Fetchers : calls[f].state = "fulfilled"}) >= Cardinality(Fetchers) - 1

\* Promise.all fulfils when every promise of the array is fulfilled
PromiseAllFulfilled == \A f \in Fetchers : calls[f].state = "fulfilled"

\* the destructuring with two names exchanged
DestructureSwapped(results) ==
    [f \in Fetchers |->
        LET g == IF f = "reddit" THEN "arxiv" ELSE IF f = "arxiv" THEN "reddit" ELSE f
        IN  results[CHOOSE i \in 1..Len(SectionOrder) : SectionOrder[i] = g]]

\* const [github, hackerNews, ...] = results; return { ..., github, ... }
Destructure(results) ==
    [f \in Fetchers |-> results[CHOOSE i \in 1..Len(SectionOrder) : SectionOrder[i] = f]]

\* generateTrendReport up to its await: each call of the array literal runs
\* its fetcher to the fetcher's first await, so all six requests are out
\* before Promise.all is awaited
GenerateStart ==
    /\ pc = "idle"
    /\ calls' = [f \in Fetchers |-> Pending]
    /\ pc' = "awaiting"
    /\ UNCHANGED <<served, report, slow, sends, pushed, fetchVars, botVars>>

\* the requests of fetcher f are answered and the fetcher runs to its end
Settle(f) ==
    /\ calls[f].state = "pending"
    /\ f \notin slow
    /\ \E a \in SourceAnswers :
           /\ served' = [served EXCEPT ![f] = a]
           /\ calls' = [calls EXCEPT ![f] = FetchOf(f, ReportLimit(f), SourceAnswer(f, a))]
    /\ UNCHANGED <<pc, report, slow, sends, pushed, fetchVars, botVars>>

\* the await of Promise.all resumes and generateTrendReport returns
Join ==
    /\ pc = "awaiting"
    /\ AnyRejected \/ PromiseAllFulfilled
    /\ IF AnyRejected
       THEN pc' = "rejected" /\ UNCHANGED report
       ELSE /\ pc' = "returned"
            /\ report' = Destructure([i \in 1..Len(CallOrder) |-> calls[CallOrder[i]].value])
    /\ UNCHANGED <<calls, served, slow, sends, pushed, fetchVars, botVars>>

\* embeds.push(new EmbedBuilder().setTitle(...).setDescription(...)): the
\* block of a section lists the records of the section in their order
EmbedOf(section, items) == [section |-> section, items |-> items]

\* a block is pushed for an empty section too
PushAlways(section, items) == <<EmbedOf(section, items)>>

\* if (report.section.length > 0) { embeds.push(...) }
PushIfAny(section, items) ==
    IF Len(items) > 0 THEN <<EmbedOf(section, items)>> ELSE <<>>

createReportEmbeds(rep) ==
    <<EmbedOf("title", <<>>)>>
        \o PushIfAny("github", rep["github"])
        \o PushIfAny("hackerNews", rep["hackerNews"])
        \o PushIfAny("reddit", rep["reddit"])
        \o PushIfAny("arxiv", rep["arxiv"])
        \o PushIfAny("huggingface", rep["huggingface"])
        \o PushIfAny("productHunt", rep["productHunt"])

\* embeds.slice(i, i + 10)
EmbedsPerSend == 10

\* Array.prototype.slice(a, b)
SliceFrom(s, a, b) == SubSeq(s, a + 1, Min(b, Len(s)))

\* the payloads of for (let i = 0; i < embeds.length; i += 10) target.send(...)
SendLoop(embeds) ==
    [k \in 1..((Len(embeds) + EmbedsPerSend - 1) \div EmbedsPerSend) |->
        SliceFrom(embeds, (k - 1) * EmbedsPerSend, k * EmbedsPerSend)]

\* pushReport after its await of generateTrendReport: the blocks are sent;
\* the send numbered failAt throws (none when failAt = 0), or the report was
\* rejected, and the catch returns false
PushReportSend(failAt) ==
    /\ pc \in {"returned", "rejected"}
    /\ pushed = "none"
    /\ IF pc = "rejected"
       THEN pushed' = "false" /\ UNCHANGED sends
       ELSE LET payloads == SendLoop(createReportEmbeds(report))
            IN  /\ failAt \in 0..Len(payloads)
                /\ sends' = IF failAt = 0 THEN payloads ELSE SubSeq(payloads, 1, failAt)
                /\ pushed' = IF failAt = 0 THEN "true" ELSE "false"
    /\ UNCHANGED <<pc, calls, served, report, slow, fetchVars, botVars>>

FetchIdle ==
    /\ fetcher = "none"
    /\ limit = 1
    /\ response = Failed("none")
    /\ promise = Pending

----------------------------------------------------------------------------
(* The bot's state: subscribers and pushedSlots *)

Users == {"u1", "u2"}

MinutesPerDay == 1440

MinutesPerHour == 60

\* PUSH_SCHEDULE
PUSH_SCHEDULE == <<[hour |-> 8, minute |-> 0], [hour |-> 20, minute |-> 0]>>

\* if (pushedSlots.size > 10)
MaxPushedSlots == 10

Range(s) == {s[i] : i \in 1..Len(s)}

\* the position of key in the insertion order, 0 when absent
IndexOf(map, key) ==
    IF key \in Range(map) THEN CHOOSE i \in 1..Len(map) : map[i] = key ELSE 0

\* Map.prototype.set: a new key is appended, a key already there keeps its place
MapSet(map, key) == IF key \in Range(map) THEN map ELSE Append(map, key)

\* the last entry removed, whatever the key
MapDeleteLast(map, key) == SubSeq(map, 1, Len(map) - 1)

\* Map.prototype.delete
MapDelete(map, key) == SelectSeq(map, LAMBDA k : k # key)

\* the commands handleMessage tells apart, after toLowerCase().trim()
SubscribeCmds == {"!subscribe", "subscribe-zh"}

UnsubscribeCmds == {"!unsubscribe", "unsubscribe-zh"}

OtherCmds ==
    { "!help", "!news", "!github", "!hn", "!reddit", "!arxiv", "!hf", "!status", "hello" }

\* the other spellings of these commands
AliasCmds ==
    { "help", "help-zh", "!today", "report-zh", "trend-zh", "!hackernews", "!paper",
      "!huggingface", "status-zh" }

Cmds == SubscribeCmds \cup UnsubscribeCmds \cup OtherCmds

\* message texts as typed, and content.toLowerCase().trim() of each
Contents ==
    Cmds \cup AliasCmds
         \cup {" !Subscribe ", "!UNSUBSCRIBE", "!GitHub ", " !HN", "!Paper", "!github now"}

\* the texts sent while push rounds run: the subscription commands as typed,
\* one command and one text that are none of them
PushContents ==
    SubscribeCmds \cup UnsubscribeCmds \cup {" !Subscribe ", "!UNSUBSCRIBE", "!status", "hello"}

\* the command text compared as it was typed
AsTyped(content) == content

\* content.toLowerCase().trim()
ToLowerTrim(content) ==
    CASE content = " !Subscribe " -> "!subscribe"
      [] content = "!Subscribe" -> "!subscribe"
      [] content = "!UNSUBSCRIBE" -> "!unsubscribe"
      [] content = "!GitHub " -> "!github"
      [] content = " !HN" -> "!hn"
      [] content = "!Paper" -> "!paper"
      [] OTHER -> content

\* an iterator of subscribers that has passed idx entries follows the Map:
\* an entry deleted behind it moves it back by one
IteratorAfterDelete(r, at) ==
    IF r.phase = "user" /\ at > 0 /\ at <= r.idx THEN [r EXCEPT !.idx = r.idx - 1] ELSE r

\* history of subscribers.set(userId, ...) by a user who was not subscribed:
\* the user has subscribed during the rounds that are running
Joined(u) ==
    [s \in DOMAIN change |->
        IF finished[s] = "running" /\ u \notin Range(subscribers)
        THEN [change[s] EXCEPT ![u] = "joined"]
        ELSE change[s]]

\* history of subscribers.delete(userId) by a subscriber: in the rounds that
\* are running and have not reached the user, the user has left before their
\* turn
LeftBeforeTurn(u) ==
    [s \in DOMAIN change |->
        IF /\ finished[s] = "running"
           /\ u \in Range(subscribers)
           /\ attempted[u][s] = 0
           /\ \A i \in 1..Len(rounds) : rounds[i].slot = s => rounds[i].target # u
        THEN [change[s] EXCEPT ![u] = "left"]
        ELSE change[s]]

\* handleMessage up to its first await: the effect of the command on the state
HandleMessageSync(u, content) ==
    LET cmd == ToLowerTrim(content)
    IN  IF cmd \in SubscribeCmds
           THEN /\ handled' = IF u \in Range(subscribers) THEN handled ELSE handled + 1
                /\ subscribers' = MapSet(subscribers, u)
                /\ lastCmd' = [lastCmd EXCEPT ![u] = "subscribe"]
                /\ UNCHANGED <<rounds, steady>>
                /\ change' = Joined(u)
           ELSE IF cmd \in UnsubscribeCmds
           THEN /\ handled' = IF u \in Range(subscribers) THEN handled + 1 ELSE handled
                /\ subscribers' = MapDelete(subscribers, u)
                /\ lastCmd' = [lastCmd EXCEPT ![u] = "unsubscribe"]
                /\ rounds' = [i \in 1..Len(rounds) |->
                                 IteratorAfterDelete(rounds[i], IndexOf(subscribers, u))]
                /\ steady' = [s \in DOMAIN steady |->
                                 IF finished[s] = "running" THEN steady[s] \ {u} ELSE steady[s]]
                /\ change' = LeftBeforeTurn(u)
           ELSE UNCHANGED <<subscribers, lastCmd, rounds, handled, steady, change>>

----------------------------------------------------------------------------
(* checkScheduledPush *)

Hour(t) == (t % MinutesPerDay) \div MinutesPerHour

Minute(t) == t % MinutesPerHour

\* taipeiTime.toISOString().split('T')[0]: the wall clock was parsed as local
\* time, so the date printed is the UTC date of wall clock - local offset
DateStr(t) == (t - localOffset) \div MinutesPerDay

SlotKey(t) == [date |-> DateStr(t), hour |-> Hour(t)]

\* the calendar date and slot of a wall-clock reading
SlotOf(t) == [date |-> t \div MinutesPerDay, hour |-> Hour(t)]

ScheduleMatches(t) ==
    \E i \in 1..Len(PUSH_SCHEDULE) :
        Hour(t) = PUSH_SCHEDULE[i].hour /\ Minute(t) = PUSH_SCHEDULE[i].minute

\* the clock readings of day 0 the ticks are followed at: the two scheduled
\* minutes and the minute after the first, whose hour is a scheduled hour and
\* whose minute is not the scheduled minute
Instants ==
    { 8 * MinutesPerHour, 8 * MinutesPerHour + 1, 20 * MinutesPerHour }

Slots == {SlotOf(t) : t \in {i \in Instants : ScheduleMatches(i)}}

Targets == Users \cup {"channel"}

\* the process runs in UTC or in a zone east of the configured one
LocalOffsets == {0, 540}

\* the keys of the n slots before day 0, oldest first
EarlierKeys(n) ==
    [i \in 1..n |->
        LET k == n - i
            t == (0 - 1 - (k \div 2)) * MinutesPerDay
                     + (IF k % 2 = 0 THEN 20 ELSE 8) * MinutesPerHour
        IN  SlotKey(t)]

\* the newest keys deleted instead of the oldest
PruneNewest(slots) ==
    IF Len(slots) > MaxPushedSlots THEN SubSeq(slots, 1, MaxPushedSlots) ELSE slots

\* arr.slice(0, arr.length - 10).forEach(k => pushedSlots.delete(k))
Prune(slots) ==
    IF Len(slots) > MaxPushedSlots
    THEN SubSeq(slots, Len(slots) - MaxPushedSlots + 1, Len(slots))
    ELSE slots

\* pushedSlots.has(slotKey)
HasSlot(slots, key) == key \in Range(slots)

\* a round runs on to its next await: the fetch of the next subscriber, the
\* fetch of the default channel, or its end
NextStop(r, subs) ==
    IF r.phase \in {"start", "user"} /\ r.idx < Len(subs)
    THEN [r EXCEPT !.phase = "user", !.idx = r.idx + 1, !.target = subs[r.idx + 1]]
    ELSE IF r.phase \in {"start", "user"} /\ defaultChannel
    THEN [r EXCEPT !.phase = "channel", !.target = "channel"]
    ELSE [r EXCEPT !.phase = "done", !.target = "none"]

Running(rs) == SelectSeq(rs, LAMBDA r : r.phase \notin {"done", "threw"})

\* without the try/catch a failed delivery ends checkScheduledPush with the
\* exception
Uncaught(r, sent, subs) ==
    IF sent THEN NextStop(r, subs) ELSE [r EXCEPT !.phase = "threw", !.target = "none"]

\* try { await fetch; await pushReport(...) } catch (e) { console.error(...) }:
\* sent or not, the round goes on
TryCatchLog(r, sent, subs) == NextStop(r, subs)

\* how far the call is, for the history
Outcome(r) ==
    IF r.phase = "done" THEN "returned" ELSE IF r.phase = "threw" THEN "threw" ELSE "running"

\* a timer tick: checkScheduledPush reads the clock and runs to its first await
Tick ==
    /\ \E t \in Instants :
        /\ t >= clock
        /\ clock' = t
        /\ IF ScheduleMatches(t) /\ ~HasSlot(pushedSlots, SlotKey(t))
           THEN /\ pushedSlots' = Prune(Append(pushedSlots, SlotKey(t)))
                /\ started' = [started EXCEPT ![SlotOf(t)] = @ + 1]
                /\ LET r == NextStop([slot |-> SlotOf(t), phase |-> "start", idx |-> 0,
                                       target |-> "none"], subscribers)
                   IN  /\ rounds' = Running(Append(rounds, r))
                       /\ finished' = [finished EXCEPT ![SlotOf(t)] = Outcome(r)]
                /\ steady' = [steady EXCEPT ![SlotOf(t)] = Range(subscribers)]
           ELSE UNCHANGED <<pushedSlots, started, rounds, steady, finished>>
    /\ UNCHANGED <<change, localOffset, defaultChannel, received, attempted, subVars, dedupVars,
                   cmdVars, fetchVars,
                   reportVars, skillVars>>

\* the delivery a round waits for ends: the report was sent, or the fetch of
\* the target or pushReport failed; the round runs on to its next await
Deliver(i, sent) ==
    /\ i \in 1..Len(rounds)
    /\ received' = IF sent
                   THEN [received EXCEPT ![rounds[i].target][rounds[i].slot] = @ + 1]
                   ELSE received
    /\ attempted' = [attempted EXCEPT ![rounds[i].target][rounds[i].slot] = @ + 1]
    /\ LET r == TryCatchLog(rounds[i], sent, subscribers)
       IN  /\ rounds' = Running([rounds EXCEPT ![i] = r])
           /\ finished' = [finished EXCEPT ![r.slot] = Outcome(r)]
    /\ UNCHANGED <<clock, localOffset, defaultChannel, pushedSlots, started, steady, change,
                   subVars, dedupVars, cmdVars, fetchVars,
                   reportVars, skillVars>>

\* a message that reaches handleMessage
Command(u, content) ==
    /\ handled < MaxCommands
    /\ HandleMessageSync(u, content)
    /\ UNCHANGED <<clock, localOffset, defaultChannel, pushedSlots, started, received,
                   attempted, finished, dedupVars, cmdVars, fetchVars,
                   reportVars, skillVars>>

\* the sync script has not been run
SyncIdle ==
    /\ repoDir = <<>>
    /\ openclawDir = <<>>
    /\ lastOps = <<>>
    /\ pushRepo = <<>>
    /\ pushLocal = <<>>

\* getAIReply has not been called
ReplyIdle ==
    /\ rpc = "idle"
    /\ userMessage = <<>>
    /\ searchResp = Failed("none")
    /\ complResp = [st |-> "none", content |-> "none"]
    /\ requests = <<>>
    /\ aiReply = [type |-> "running", value |-> [null |-> TRUE, text |-> <<>>]]

\* no call of handleMessage is followed
CmdIdle ==
    /\ hpc = "idle"
    /\ typed = "none"
    /\ branch = <<>>
    /\ fetched = <<>>
    /\ got = <<>>
    /\ replies = <<>>

\* the ids of the messages whose events arrive
MsgIds == {"m1", "m2", "m3", "m4"}

\* nothing has arrived yet
DedupIdle ==
    /\ now = 0
    /\ processedMessages = {}
    /\ timers = {}
    /\ inHandler = {}
    /\ firstAt = [id \in MsgIds |-> 0 - 1]
    /\ invoked = [id \in MsgIds |-> 0]
    /\ lastEventAt = 0 - 1
    /\ arrived = {}
    /\ dupWhileHandling = {}

BotIdle ==
    /\ subscribers = <<>>
    /\ lastCmd = [u \in Users |-> "none"]
    /\ handled = 0
    /\ clock = 0
    /\ localOffset = 0
    /\ defaultChannel = FALSE
    /\ pushedSlots = <<>>
    /\ rounds = <<>>
    /\ started = [s \in Slots |-> 0]
    /\ received = [x \in Targets |-> [s \in Slots |-> 0]]
    /\ attempted = [x \in Targets |-> [s \in Slots |-> 0]]
    /\ steady = [s \in Slots |-> {}]
    /\ finished = [s \in Slots |-> "none"]
    /\ change = [s \in Slots |-> [u \in Users |-> "none"]]
    /\ DedupIdle
    /\ CmdIdle
    /\ ReplyIdle
    /\ SyncIdle

\* the bot before the ticks of the day, with no subscriber or with u1
\* subscribed, and with no slot pushed yet or with the slots of the five days
\* before
PushInit ==
    /\ subscribers \in {<<>>, <<"u1">>}
    /\ lastCmd = [u \in Users |-> IF u \in Range(subscribers) THEN "subscribe" ELSE "none"]
    /\ handled = 0
    /\ clock = 0
    /\ localOffset \in LocalOffsets
    /\ defaultChannel \in BOOLEAN
    /\ pushedSlots \in {<<>>, EarlierKeys(MaxPushedSlots)}
    /\ rounds = <<>>
    /\ started = [s \in Slots |-> 0]
    /\ received = [x \in Targets |-> [s \in Slots |-> 0]]
    /\ attempted = [x \in Targets |-> [s \in Slots |-> 0]]
    /\ steady = [s \in Slots |-> {}]
    /\ finished = [s \in Slots |-> "none"]
    /\ change = [s \in Slots |-> [u \in Users |-> "none"]]
    /\ DedupIdle
    /\ CmdIdle
    /\ ReplyIdle
    /\ SyncIdle
    /\ FetchIdle
    /\ ReportIdle

PushNext ==
    \/ Tick
    \/ \E i \in 1..Len(rounds), sent \in BOOLEAN : Deliver(i, sent)
    \/ \E u \in Users, content \in PushContents : Command(u, content)

SpecPush == PushInit /\ [][PushNext]_vars

----------------------------------------------------------------------------
(* handleMessage *)

\* the commands that show one source, named after their fetchers
SingleSource == {"github", "hackerNews", "reddit", "arxiv", "huggingface"}

\* the chain of if (cmd === ...) { ...; return; } in source order; the last
\* statement is the introduction reply
BranchOf(cmd) ==
    IF cmd \in {"!help", "help", "help-zh"} THEN "help"
    ELSE IF cmd \in {"!news", "!today", "report-zh", "trend-zh"} THEN "news"
    ELSE IF cmd = "!github" THEN "github"
    ELSE IF cmd \in {"!hn", "!hackernews"} THEN "hackerNews"
    ELSE IF cmd = "!reddit" THEN "reddit"
    ELSE IF cmd \in {"!arxiv", "!paper"} THEN "arxiv"
    ELSE IF cmd \in {"!hf", "!huggingface"} THEN "huggingface"
    ELSE IF cmd \in SubscribeCmds THEN "subscribe"
    ELSE IF cmd \in UnsubscribeCmds THEN "unsubscribe"
    ELSE IF cmd \in {"!status", "status-zh"} THEN "status"
    ELSE "default"

\* the limit each command calls its fetcher with
CommandLimit(f) ==
    CASE f = "github"      -> 10
      [] f = "hackerNews"  -> 10
      [] f = "reddit"      -> 10
      [] f = "arxiv"       -> 8
      [] f = "huggingface" -> 10

\* message.reply(text)
TextReply(b) == [kind |-> "text", about |-> b, items |-> <<>>]

\* message.reply('❌ 無法獲取 ... 數據')
ErrorReply(f) == [kind |-> "error", about |-> f, items |-> <<>>]

\* message.reply({ embeds: [embed] }), the embed listing data in its order
EmbedReply(f, data) == [kind |-> "embeds", about |-> f, items |-> data]

\* handleMessage from its call to its first await that waits for data: the
\* branch of the command is entered; a branch that needs no data replies
\* and returns
HandleMessage(u, content) ==
    LET b == BranchOf(ToLowerTrim(content))
    IN  /\ hpc = "idle"
        /\ typed' = content
        /\ branch' = Append(branch, b)
        /\ HandleMessageSync(u, content)
        /\ UNCHANGED got
        /\ IF b \in SingleSource
           THEN /\ hpc' = "fetching"
                /\ fetched' = Append(fetched, [fetcher |-> b, limit |-> CommandLimit(b)])
                /\ UNCHANGED replies
           ELSE IF b = "news"
           THEN /\ hpc' = "pushing"
                /\ replies' = Append(replies, TextReply("collecting"))
                /\ UNCHANGED fetched
           ELSE /\ hpc' = "done"
                /\ replies' = Append(replies, TextReply(b))
                /\ UNCHANGED fetched
        /\ UNCHANGED <<clock, localOffset, defaultChannel, pushedSlots, started, received,
                       attempted, finished, dedupVars, fetchVars, reportVars, skillVars>>

\* the fetcher of a single-source command returns and the command replies
FetcherReturns(a) ==
    /\ hpc = "fetching"
    /\ LET f    == fetched[Len(fetched)]
           data == FetchOf(f.fetcher, f.limit, SourceAnswer(f.fetcher, a)).value
       IN  /\ got' = data
           /\ replies' = Append(replies, IF Len(data) = 0 THEN ErrorReply(f.fetcher)
                                         ELSE EmbedReply(f.fetcher, data))
    /\ hpc' = "done"
    /\ UNCHANGED <<typed, branch, fetched, subVars, pushVars, dedupVars, fetchVars, reportVars, skillVars>>

\* !news: pushReport(message.channel) runs, as modelled for the report
NewsStep ==
    /\ hpc = "pushing"
    /\ \/ GenerateStart
       \/ \E f \in Fetchers : Settle(f)
       \/ Join
       \/ \E failAt \in 0..1 : PushReportSend(failAt)

\* !news: pushReport has returned, and so does handleMessage
NewsReturns ==
    /\ hpc = "pushing"
    /\ pushed # "none"
    /\ hpc' = "done"
    /\ UNCHANGED <<typed, branch, fetched, got, replies, subVars, pushVars, dedupVars,
                   fetchVars, reportVars, skillVars>>

\* one message reaches handleMessage, from a user who may be subscribed
CommandInit ==
    /\ subscribers \in {<<>>, <<"u1">>}
    /\ lastCmd = [u \in Users |-> IF u \in Range(subscribers) THEN "subscribe" ELSE "none"]
    /\ handled = Len(subscribers)
    /\ clock = 0
    /\ localOffset = 0
    /\ defaultChannel = FALSE
    /\ pushedSlots = <<>>
    /\ rounds = <<>>
    /\ started = [s \in Slots |-> 0]
    /\ received = [x \in Targets |-> [s \in Slots |-> 0]]
    /\ attempted = [x \in Targets |-> [s \in Slots |-> 0]]
    /\ steady = [s \in Slots |-> {}]
    /\ finished = [s \in Slots |-> "none"]
    /\ change = [s \in Slots |-> [u \in Users |-> "none"]]
    /\ DedupIdle
    /\ CmdIdle
    /\ ReplyIdle
    /\ SyncIdle
    /\ FetchIdle
    /\ ReportIdle

CommandNext ==
    \/ \E u \in Users, content \in Contents : HandleMessage(u, content)
    \/ \E a \in SourceAnswers : FetcherReturns(a)
    \/ NewsStep
    \/ NewsReturns

SpecCommand == CommandInit /\ [][CommandNext]_vars

----------------------------------------------------------------------------
(* The MessageCreate handler *)

\* const DEDUP_TIMEOUT = 10000
DEDUP_TIMEOUT == 10000

\* the events' messages: author, whether the author is a bot, whether the
\* message is a DM or mentions the bot, and its text
Message(id) ==
    CASE id = "m1" -> [author |-> "u1", bot |-> FALSE, addressed |-> TRUE,
                       content |-> "!subscribe"]
      [] id = "m2" -> [author |-> "u2", bot |-> FALSE, addressed |-> TRUE,
                       content |-> "<@42> !Subscribe "]
      [] id = "m3" -> [author |-> "u1", bot |-> TRUE, addressed |-> TRUE,
                       content |-> "!unsubscribe"]
      [] id = "m4" -> [author |-> "u2", bot |-> FALSE, addressed |-> FALSE,
                       content |-> "!unsubscribe"]

\* every author passes for a user
NobodyIsBot(m) == FALSE

\* message.author.bot
IsBotAuthor(m) == m.bot

\* isDM || isMention
IsAddressed(m) == m.addressed

\* message.content.replace(/<@!?\d+>/g, '').trim()
StripMentions(content) ==
    CASE content = "<@42> !Subscribe " -> "!Subscribe"
      [] OTHER -> content

\* the callback that empties the whole set
ExpireAll(set, id) == {}

\* () => processedMessages.delete(msgKey)
Expire(set, id) == set \ {id}

\* client.on(Events.MessageCreate, ...) up to its first await
MessageCreate(id) ==
    LET m     == Message(id)
        first == IF firstAt[id] < 0 THEN now ELSE firstAt[id]
    IN  /\ lastEventAt' = now
        /\ arrived' = arrived \cup {id}
        /\ IF IsBotAuthor(m)
           THEN UNCHANGED <<processedMessages, timers, inHandler, firstAt, invoked,
                            dupWhileHandling, subVars, rounds, steady, change>>
           ELSE IF id \in processedMessages
           THEN /\ dupWhileHandling' =
                       IF id \in inHandler THEN dupWhileHandling \cup {id} ELSE dupWhileHandling
                /\ UNCHANGED <<processedMessages, timers, inHandler, firstAt, invoked,
                               subVars, rounds, steady, change>>
           ELSE /\ processedMessages' = processedMessages \cup {id}
                /\ timers' = timers \cup {[id |-> id, due |-> now + DEDUP_TIMEOUT]}
                /\ firstAt' = [firstAt EXCEPT ![id] = first]
                /\ UNCHANGED dupWhileHandling
                /\ IF IsAddressed(m)
                   THEN /\ invoked' = IF now < first + DEDUP_TIMEOUT
                                      THEN [invoked EXCEPT ![id] = @ + 1]
                                      ELSE invoked
                        /\ inHandler' = inHandler \cup {id}
                        /\ HandleMessageSync(m.author, StripMentions(m.content))
                   ELSE UNCHANGED <<invoked, inHandler, subVars, rounds, steady, change>>
        /\ UNCHANGED <<now, clock, localOffset, defaultChannel, pushedSlots, started, received,
                       attempted, finished, cmdVars, fetchVars,
                       reportVars, skillVars>>

\* handleMessage returns: its last reply has been sent
HandlerReturns(id) ==
    /\ id \in inHandler
    /\ inHandler' = inHandler \ {id}
    /\ UNCHANGED <<now, processedMessages, timers, firstAt, invoked, lastEventAt, arrived,
                   dupWhileHandling, subVars, pushVars, cmdVars, fetchVars,
                   reportVars, skillVars>>

\* a setTimeout callback runs when its delay has passed
TimerFires(t) ==
    /\ t \in timers
    /\ t.due <= now
    /\ processedMessages' = Expire(processedMessages, t.id)
    /\ timers' = timers \ {t}
    /\ UNCHANGED <<now, inHandler, firstAt, invoked, lastEventAt, arrived, dupWhileHandling,
                   subVars, pushVars, cmdVars, fetchVars,
                   reportVars, skillVars>>

\* time passes, up to the next timer that is due
TimePasses ==
    /\ now < MaxTime
    /\ \A t \in timers : t.due > now
    /\ LET next == Min(now + TimeStep, MaxTime)
           dues == {t.due : t \in timers}
       IN  now' = IF \E d \in dues : d < next
                  THEN CHOOSE d \in dues : \A e \in dues : d <= e
                  ELSE next
    /\ UNCHANGED <<processedMessages, timers, inHandler, firstAt, invoked, lastEventAt, arrived,
                   dupWhileHandling, subVars, pushVars, cmdVars, fetchVars,
                   reportVars, skillVars>>

DedupInit ==
    /\ BotIdle
    /\ FetchIdle
    /\ ReportIdle

DedupNext ==
    \/ \E id \in MsgIds : MessageCreate(id)
    \/ \E id \in MsgIds : HandlerReturns(id)
    \/ \E t \in timers : TimerFires(t)
    \/ TimePasses

SpecDedup == DedupInit /\ [][DedupNext]_vars

----------------------------------------------------------------------------
(* getAIReply (src/local-skills/discord-voice-bot/ai-reply.js) *)

\* SEARCH_KEYWORDS, each a sequence of characters
SEARCH_KEYWORDS ==
    { <<"tian", "qi">>, <<"qi", "wen">>, <<"xin", "wen">>, <<"gu", "jia">>,
      <<"hui", "lv">>, <<"xian", "zai">>, <<"jin", "tian">>, <<"zui", "xin">>,
      <<"cha", "xun">>, <<"sou", "xun">>, <<"ji", "dian">>, <<"shi", "jian">> }

\* String.prototype.includes
Includes(str, sub) ==
    \E i \in 1..(Len(str) - Len(sub) + 1) : SubSeq(str, i, i + Len(sub) - 1) = sub

\* SEARCH_KEYWORDS.some(keyword => message.includes(keyword))
needsWebSearch(message) == \E keyword \in SEARCH_KEYWORDS : Includes(message, keyword)

\* the user messages: no keyword; two keywords; the characters of a keyword
\* in the other order; a keyword inside a longer word
UserMessages ==
    { <<"ni", "hao">>, <<"jin", "tian", "tian", "qi">>, <<"tian", "jin">>,
      <<"chang", "shi", "jian">> }

\* what the search request gets: it throws, a status that is not OK, a body
\* that is no JSON, a body without results, results, or results one of which
\* is null
WebSearchResponses ==
    { Failed("throw"), Failed("notok"), Failed("badjson"), Ok(<<>>),
      Ok(<<[title |-> "t1", valid |-> TRUE]>>),
      Ok(<<[title |-> "t1", valid |-> TRUE], [title |-> "t2", valid |-> TRUE]>>),
      Ok(<<[title |-> "t1", valid |-> TRUE], [title |-> "none", valid |-> FALSE]>>) }

\* what the completion request gets: it throws, a status that is not OK
\* (whose text can be read or not), a body that is no JSON, a body without
\* choices, an empty content, or a content
CompletionResponses ==
    { [st |-> "throw", content |-> "none"], [st |-> "notok", content |-> "none"],
      [st |-> "notok-notext", content |-> "none"], [st |-> "badjson", content |-> "none"],
      [st |-> "ok", content |-> "none"], [st |-> "ok", content |-> ""],
      [st |-> "ok", content |-> "reply"] }

\* the value null, and a string value
Null == [null |-> TRUE, text |-> <<>>]

Text(t) == [null |-> FALSE, text |-> t]

\* the body of webSearch on the response resp
WebSearchBody(resp) ==
    IF resp.st \in {"throw", "badjson"} THEN Throw
    ELSE IF resp.st # "ok" THEN Return(Null)
    ELSE IF Len(resp.rows) = 0 THEN Return(Null)
    ELSE IF \E i \in 1..Len(resp.rows) : ~resp.rows[i].valid THEN Throw
    ELSE Return(Text([i \in 1..Len(resp.rows) |-> resp.rows[i].title]))

\* webSearch without its catch
SearchUncaught(c) == c

\* catch (error) { console.error(...); return null; }
CatchReturnNull(c) == IF c.type = "throw" THEN Return(Null) ELSE c

webSearch(resp) == CatchReturnNull(WebSearchBody(resp))

\* if (searchResults) { searchContext = ... }: null and '' are falsy
SearchContextOf(searchResults) ==
    IF searchResults.null \/ searchResults.text = <<>> THEN <<>> ELSE searchResults.text

\* the POST to OPENROUTER_API_URL
CompletionRequest(context, message) ==
    [to |-> "completion", system |-> context, user |-> message]

\* the GET to BRAVE_SEARCH_URL
SearchRequest(query) == [to |-> "search", system |-> <<>>, user |-> query]

\* getAIReply after the completion request: data.choices?.[0]?.message?.content || null
CompletionBody(resp) ==
    IF resp.st \in {"throw", "badjson", "notok-notext"} THEN Throw
    ELSE IF resp.st # "ok" THEN Return(Null)
    ELSE IF resp.content \in {"none", ""} THEN Return(Null)
    ELSE Return(Text(<<resp.content>>))

ReplyRunning == [type |-> "running", value |-> Null]

\* getAIReply up to its first await: the search request when the message has
\* a keyword, the completion request otherwise
ReplyStart ==
    /\ rpc = "idle"
    /\ IF needsWebSearch(userMessage)
       THEN /\ requests' = Append(requests, SearchRequest(userMessage))
            /\ rpc' = "searching"
       ELSE /\ requests' = Append(requests, CompletionRequest(<<>>, userMessage))
            /\ rpc' = "completing"
    /\ UNCHANGED <<userMessage, searchResp, complResp, aiReply, subVars, pushVars, dedupVars,
                   cmdVars, syncVars, fetchVars, reportVars>>

\* the search request is answered: webSearch returns and getAIReply sends the
\* completion request
SearchReturns ==
    /\ rpc = "searching"
    /\ LET c == webSearch(searchResp)
       IN  IF c.type = "throw"
           THEN /\ aiReply' = CatchReturnNull(c)
                /\ rpc' = "done"
                /\ UNCHANGED requests
           ELSE /\ requests' = Append(requests,
                                      CompletionRequest(SearchContextOf(c.value), userMessage))
                /\ rpc' = "completing"
                /\ UNCHANGED aiReply
    /\ UNCHANGED <<userMessage, searchResp, complResp, subVars, pushVars, dedupVars,
                   cmdVars, syncVars, fetchVars, reportVars>>

\* the completion request is answered and getAIReply returns
CompletionReturns ==
    /\ rpc = "completing"
    /\ aiReply' = CatchReturnNull(CompletionBody(complResp))
    /\ rpc' = "done"
    /\ UNCHANGED <<userMessage, searchResp, complResp, requests, subVars, pushVars, dedupVars,
                   cmdVars, syncVars, fetchVars, reportVars>>

ReplyInit ==
    /\ rpc = "idle"
    /\ userMessage \in UserMessages
    /\ searchResp \in WebSearchResponses
    /\ complResp \in CompletionResponses
    /\ requests = <<>>
    /\ aiReply = ReplyRunning
    /\ subscribers = <<>>
    /\ lastCmd = [u \in Users |-> "none"]
    /\ handled = 0
    /\ clock = 0
    /\ localOffset = 0
    /\ defaultChannel = FALSE
    /\ pushedSlots = <<>>
    /\ rounds = <<>>
    /\ started = [s \in Slots |-> 0]
    /\ received = [x \in Targets |-> [s \in Slots |-> 0]]
    /\ attempted = [x \in Targets |-> [s \in Slots |-> 0]]
    /\ steady = [s \in Slots |-> {}]
    /\ finished = [s \in Slots |-> "none"]
    /\ change = [s \in Slots |-> [u \in Users |-> "none"]]
    /\ DedupIdle
    /\ CmdIdle
    /\ SyncIdle
    /\ FetchIdle
    /\ ReportIdle

ReplyNext ==
    \/ ReplyStart
    \/ SearchReturns
    \/ CompletionReturns

SpecReply == ReplyInit /\ [][ReplyNext]_vars

----------------------------------------------------------------------------
(* The sync script (src/unnamed/part_000) *)

\* the keys of SYNC_MAP: the mapped directories, named by their repo paths
SYNC_MAP == {"agents/ai-trends", "agents/video-subtitle", "local-skills/discord-voice-bot"}

\* EXCLUDES: names, and globs of the form *.ext
EXCLUDES ==
    { [kind |-> "name", v |-> "node_modules"], [kind |-> "name", v |-> "venv"],
      [kind |-> "ext", v |-> "log"], [kind |-> "ext", v |-> "mp3"],
      [kind |-> "ext", v |-> "wav"], [kind |-> "name", v |-> "recordings"],
      [kind |-> "name", v |-> "tts_output"], [kind |-> "name", v |-> "memory"],
      [kind |-> "name", v |-> "__pycache__"], [kind |-> "ext", v |-> "pyc"],
      [kind |-> "name", v |-> ".env"] }

\* REPO_ONLY_FILES
REPO_ONLY_FILES ==
    { [kind |-> "name", v |-> ".gitignore"], [kind |-> "name", v |-> "README.md"] }

\* the paths of the files followed in a mapped directory, each the sequence
\* of its components with their extensions
Paths ==
    { <<[name |-> "bot.js", ext |-> "js"]>>,
      <<[name |-> "README.md", ext |-> "md"]>>,
      <<[name |-> ".gitignore", ext |-> "gitignore"]>>,
      <<[name |-> ".env", ext |-> "env"]>>,
      <<[name |-> "debug.log", ext |-> "log"]>>,
      <<[name |-> "node_modules", ext |-> ""], [name |-> "x.js", ext |-> "js"]>> }

BotJs == <<[name |-> "bot.js", ext |-> "js"]>>

\* a pattern without a slash matches a component at any depth
Matches(component, pattern) ==
    IF pattern.kind = "name" THEN component.name = pattern.v ELSE component.ext = pattern.v

\* rsync --exclude: a path is skipped when one of its components matches
ExcludedBy(patterns, path) ==
    \E i \in 1..Len(path) : \E pattern \in patterns : Matches(path[i], pattern)

\* build_rsync_excludes
PullExcludes == EXCLUDES

\* push_excludes: EXCLUDES and REPO_ONLY_FILES
PushExcludes == EXCLUDES \cup REPO_ONLY_FILES

\* a directory that does not exist
NoDir == [exists |-> FALSE, files |-> [p \in Paths |-> "none"]]

\* rsync -av --delete excludes src/ dst/ after mkdir -p dst: moreover the
\* files of dst that src lacks are removed, the excluded ones being kept
RsyncDelete(src, dst, patterns) ==
    [exists |-> TRUE,
     files  |-> [p \in Paths |-> IF ExcludedBy(patterns, p) THEN dst.files[p] ELSE src.files[p]]]

\* the push run with --delete
PushWithDelete(src, dst, patterns) == RsyncDelete(src, dst, patterns)

\* rsync -av excludes src/ dst/ after mkdir -p dst: every file of src that is
\* not excluded is written to dst; nothing of dst is removed
RsyncCopy(src, dst, patterns) ==
    [exists |-> TRUE,
     files  |-> [p \in Paths |->
                    IF ~ExcludedBy(patterns, p) /\ src.files[p] # "none"
                    THEN src.files[p] ELSE dst.files[p]]]

\* the loop over SYNC_MAP of sync_pull: if [ -d "$src" ]
PullLoop(from, to) ==
    [e \in SYNC_MAP |->
        IF from[e].exists THEN RsyncDelete(from[e], to[e], PullExcludes) ELSE to[e]]

\* the loop over SYNC_MAP of sync_push
PushLoop(from, to) ==
    [e \in SYNC_MAP |->
        IF from[e].exists THEN RsyncCopy(from[e], to[e], PushExcludes) ELSE to[e]]

\* git pull origin main: it fails, the repo is up to date, or the remote has
\* a new version of bot.js in agents/ai-trends
GitOutcomes == {"fail", "uptodate", "update"}

GitPull(tree, outcome) ==
    IF outcome = "update"
    THEN [tree EXCEPT !["agents/ai-trends"] =
             [exists |-> TRUE, files |-> [tree["agents/ai-trends"].files EXCEPT ![BotJs] = "g"]]]
    ELSE tree

\* the last two commands
Remember(ops, op) == IF Len(ops) < 2 THEN Append(ops, op) ELSE <<ops[2], op>>

\* ./sync.sh pull; with set -e a failing git pull ends the script
sync_pull(outcome) ==
    /\ lastOps' = Remember(lastOps, IF outcome = "fail" THEN "pull-failed" ELSE "pull")
    /\ IF outcome = "fail"
       THEN UNCHANGED <<repoDir, openclawDir>>
       ELSE /\ repoDir' = GitPull(repoDir, outcome)
            /\ openclawDir' = PullLoop(GitPull(repoDir, outcome), openclawDir)
    /\ UNCHANGED <<pushRepo, pushLocal, replyVars, subVars, pushVars, dedupVars, cmdVars,
                   fetchVars, reportVars>>

\* ./sync.sh push
sync_push ==
    /\ lastOps' = Remember(lastOps, "push")
    /\ repoDir' = PushLoop(openclawDir, repoDir)
    /\ pushRepo' = repoDir
    /\ pushLocal' = openclawDir
    /\ UNCHANGED <<openclawDir, replyVars, subVars, pushVars, dedupVars, cmdVars, fetchVars,
                   reportVars>>

\* a file of a mapped directory: in the repo only, in ~/.openclaw only, in
\* both with different contents, or in neither; .gitignore is in the repo,
\* and the log is written in ~/.openclaw
FileStates(p) ==
    IF p[1].name \in {".gitignore", "debug.log"}
    THEN IF p[1].name = ".gitignore" THEN {<<"r", "none">>, <<"r", "l">>}
         ELSE {<<"none", "l">>, <<"r", "l">>}
    ELSE {<<"none", "none">>, <<"r", "none">>, <<"none", "l">>, <<"r", "l">>}

\* a directory holding the files that have a content in c
DirOf(c) == [exists |-> \E p \in Paths : c[p] # "none", files |-> c]

SyncInit ==
    /\ \E f \in {g \in [Paths -> {"none", "r", "l"} \X {"none", "r", "l"}] :
                      \A p \in Paths : g[p] \in FileStates(p)} :
          /\ repoDir = [e \in SYNC_MAP |->
                        IF e = "agents/ai-trends" THEN DirOf([p \in Paths |-> f[p][1]])
                        ELSE IF e = "agents/video-subtitle"
                        THEN DirOf([p \in Paths |-> IF p = BotJs THEN "r" ELSE "none"])
                        ELSE NoDir]
          /\ openclawDir = [e \in SYNC_MAP |->
                        IF e = "agents/ai-trends" THEN DirOf([p \in Paths |-> f[p][2]])
                        ELSE IF e = "local-skills/discord-voice-bot"
                        THEN DirOf([p \in Paths |-> IF p = BotJs THEN "l" ELSE "none"])
                        ELSE NoDir]
    /\ lastOps = <<>>
    /\ pushRepo = repoDir
    /\ pushLocal = openclawDir
    /\ ReplyIdle
    /\ subscribers = <<>>
    /\ lastCmd = [u \in Users |-> "none"]
    /\ handled = 0
    /\ clock = 0
    /\ localOffset = 0
    /\ defaultChannel = FALSE
    /\ pushedSlots = <<>>
    /\ rounds = <<>>
    /\ started = [s \in Slots |-> 0]
    /\ received = [x \in Targets |-> [s \in Slots |-> 0]]
    /\ attempted = [x \in Targets |-> [s \in Slots |-> 0]]
    /\ steady = [s \in Slots |-> {}]
    /\ finished = [s \in Slots |-> "none"]
    /\ change = [s \in Slots |-> [u \in Users |-> "none"]]
    /\ DedupIdle
    /\ CmdIdle
    /\ FetchIdle
    /\ ReportIdle

SyncNext ==
    \/ \E outcome \in GitOutcomes : sync_pull(outcome)
    \/ sync_push

SpecSync == SyncInit /\ [][SyncNext]_vars

----------------------------------------------------------------------------
(* SpecReport: one call of generateTrendReport *)

\* a report is asked for; at most one source stays silent
ReportInit ==
    /\ pc = "idle"
    /\ calls = [f \in Fetchers |-> NotCalled]
    /\ served = [f \in Fetchers |-> "none"]
    /\ report = [f \in Fetchers |-> <<>>]
    /\ slow \in {{}} \cup {{f} : f \in Fetchers}
    /\ sends = <<>>
    /\ pushed = "none"
    /\ FetchIdle
    /\ BotIdle

ReportNext ==
    \/ GenerateStart
    \/ \E f \in Fetchers : Settle(f)
    \/ Join
    \/ \E failAt \in 0..1 : PushReportSend(failAt)

SpecReport == ReportInit /\ [][ReportNext]_vars

\* the event loop runs every callback that is ready: a response that arrives
\* is handled, and a fulfilled Promise.all resumes its awaiter
FairSpecReport ==
    /\ SpecReport
    /\ WF_vars(GenerateStart)
    /\ \A f \in Fetchers : WF_vars(Settle(f))
    /\ WF_vars(Join)

----------------------------------------------------------------------------
(* SpecFetch: one call of one fetcher on drawn responses *)

ResponsesOf(f) ==
    CASE f = "github"      -> GitHubResponses
      [] f = "hackerNews"  -> HNResponses
      [] f = "reddit"      -> RedditResponses
      [] f = "arxiv"       -> ArxivResponses
      [] f = "huggingface" -> HFResponses
      [] f = "productHunt" -> PHResponses

FetchInit ==
    /\ fetcher \in Fetchers
    /\ limit \in 1..MaxLimit
    /\ response \in ResponsesOf(fetcher)
    /\ promise = Pending
    /\ ReportIdle
    /\ BotIdle

CallGitHub ==
    /\ fetcher = "github" /\ promise = Pending
    /\ promise' = fetchGitHubTrending(limit, response)
    /\ UNCHANGED <<fetcher, limit, response, reportVars, botVars>>

CallHackerNews ==
    /\ fetcher = "hackerNews" /\ promise = Pending
    /\ promise' = fetchHackerNews(limit, response)
    /\ UNCHANGED <<fetcher, limit, response, reportVars, botVars>>

CallReddit ==
    /\ fetcher = "reddit" /\ promise = Pending
    /\ promise' = fetchReddit(limit, response)
    /\ UNCHANGED <<fetcher, limit, response, reportVars, botVars>>

CallArxiv ==
    /\ fetcher = "arxiv" /\ promise = Pending
    /\ promise' = fetchArxiv(limit, response)
    /\ UNCHANGED <<fetcher, limit, response, reportVars, botVars>>

CallHuggingFace ==
    /\ fetcher = "huggingface" /\ promise = Pending
    /\ promise' = fetchHuggingFace(limit, response)
    /\ UNCHANGED <<fetcher, limit, response, reportVars, botVars>>

CallProductHunt ==
    /\ fetcher = "productHunt" /\ promise = Pending
    /\ promise' = fetchProductHunt(limit, response)
    /\ UNCHANGED <<fetcher, limit, response, reportVars, botVars>>

FetchNext ==
    \/ CallGitHub
    \/ CallHackerNews
    \/ CallReddit
    \/ CallArxiv
    \/ CallHuggingFace
    \/ CallProductHunt

SpecFetch == FetchInit /\ [][FetchNext]_vars

----------------------------------------------------------------------------
(* Properties of the fetchers *)

Fulfilled == promise.state = "fulfilled"

RateFetchers == {"github", "hackerNews", "reddit", "huggingface"}

TimeFetchers == {"arxiv", "productHunt"}

\* the rate field of a record of fetcher f
RateOf(f, r) ==
    CASE f = "github"      -> r.starsToday
      [] f = "hackerNews"  -> r.pointsPerHour
      [] f = "reddit"      -> r.scorePerHour
      [] f = "huggingface" -> r.likes7d

\* C1: every fetcher, for every limit N >= 1 and every response, returns at
\* most N records.
C1_AtMostLimit == Fulfilled => Len(promise.value) <= limit

\* fetchArxiv stopped at the limit although the feed held more papers
C1_Witness ==
    /\ fetcher = "arxiv" /\ Fulfilled
    /\ Len(promise.value) = limit
    /\ Len(SelectSeq(response.rows, ArxivKept)) > limit

\* C2: the sequences returned by fetchGitHubTrending, fetchHackerNews,
\* fetchReddit and fetchHuggingFace are in non-increasing order of the rate
\* field: no record is followed by one with a strictly larger rate.
C2_SortedByRate ==
    (fetcher \in RateFetchers /\ Fulfilled) =>
        \A i, j \in 1..Len(promise.value) :
            i < j => RateOf(fetcher, promise.value[j]) <= RateOf(fetcher, promise.value[i])

\* a GitHub Search record, pushed after the OSS Insight records, is returned
\* in front of an OSS Insight record with fewer stars today
C2_Witness ==
    /\ fetcher = "github" /\ Fulfilled
    /\ \E i, j \in 1..Len(promise.value) :
           /\ i < j
           /\ promise.value[i].via = "search" /\ promise.value[j].via = "oss"
           /\ promise.value[i].starsToday > promise.value[j].starsToday

Ascending(s) == \A i, j \in 1..Len(s) : i < j => s[i] <= s[j]

HoursAgoOf(v) == [i \in 1..Len(v) |-> v[i].hoursAgo]

\* the records v are, in order, records of rows of the feed
KeepsFeedOrder(v, rows) ==
    \E at \in [1..Len(v) -> 1..Len(rows)] :
        /\ \A i \in 1..Len(v) : rows[at[i]].id = v[i].id
        /\ \A i, j \in 1..Len(v) : i < j => at[i] < at[j]

\* the feed lists its dated entries most recent first
NewestFirst(rows) ==
    \A i, j \in 1..Len(rows) :
        (i < j /\ rows[i].dated /\ rows[j].dated) => rows[i].age <= rows[j].age

\* a Product Hunt item without pubDate counts as published now
PHNewestFirst(rows) ==
    \A i, j \in 1..Len(rows) :
        i < j => PHHoursAgo(rows[i]) <= PHHoursAgo(rows[j])

RequestsFailed(f, resp) ==
    CASE f = "github" ->
             /\ resp.oss.st # "ok"
             /\ \A q \in 1..SearchQueries : resp.search[q].st # "ok"
      [] f = "hackerNews"  -> resp.st # "ok"
      [] f = "reddit"      -> \A s \in 1..Subreddits : resp[s].st # "ok"
      [] f = "arxiv"       -> resp.st # "ok"
      [] f = "huggingface" -> resp.models.st # "ok" /\ resp.spaces.st # "ok"
      [] f = "productHunt" -> \A k \in 1..Feeds : resp[k].st # "ok"

AllRequestsFailed == RequestsFailed(fetcher, response)

\* C4: no fetcher rejects, whatever fails inside it, and a fetcher whose
\* every request failed resolves to the empty sequence.
C4_NeverRejects ==
    /\ promise.state # "rejected"
    /\ (Fulfilled /\ AllRequestsFailed) => promise.value = <<>>

\* a GitHub Search request threw after OSS Insight had supplied records, and
\* the call resolved
C4_Witness ==
    /\ fetcher = "github" /\ Fulfilled
    /\ Len(OssResults(limit, response.oss)) \in 1..(limit - 1)
    /\ response.search[1].st = "throw"
    /\ promise.value = <<>>

\* C10 as stated: one threshold on the rate field per fetcher, so a record
\* whose rate is at least that of a hot record of the same output is hot.
C10_OneThresholdOnRate ==
    (fetcher \in RateFetchers /\ Fulfilled) =>
        \A i, j \in 1..Len(promise.value) :
            ( /\ promise.value[i].isHot
              /\ RateOf(fetcher, promise.value[j]) >= RateOf(fetcher, promise.value[i]) )
                => promise.value[j].isHot

\* C10 amended: the hot flag comes from static thresholds, one per origin of
\* the record and not always on the rate field: OSS Insight stars > 500,
\* GitHub Search total stars > 10000, Hugging Face models likes7d > 100 and
\* Spaces likes7d > 50, and for Hacker News and Reddit the rate before it is
\* rounded to one decimal > 20 and > 50.
C10_StaticThresholds ==
    Fulfilled =>
        \A i \in 1..Len(promise.value) :
            LET r == promise.value[i]
            IN  CASE fetcher = "github" ->
                         r.isHot <=> IF r.via = "oss" THEN r.starsToday > HotOssStars
                                     ELSE r.stars > HotSearchStars
                  [] fetcher = "hackerNews" ->
                         /\ r.isHot => r.pointsPerHour >= 10 * HotPointsPerHour
                         /\ r.pointsPerHour > 10 * HotPointsPerHour => r.isHot
                  [] fetcher = "reddit" ->
                         /\ r.isHot => r.scorePerHour >= 10 * HotScorePerHour
                         /\ r.scorePerHour > 10 * HotScorePerHour => r.isHot
                  [] fetcher = "huggingface" ->
                         r.isHot <=> IF r.type = "Model" THEN r.likes7d > HotModelLikes
                                     ELSE r.likes7d > HotSpaceLikes
                  [] OTHER -> TRUE

\* a hot GitHub Search record next to an OSS Insight record that has at
\* least its rate and is not hot
C10_Witness ==
    /\ fetcher = "github" /\ Fulfilled
    /\ \E i, j \in 1..Len(promise.value) :
           /\ promise.value[i].via = "search" /\ promise.value[i].isHot
           /\ promise.value[j].via = "oss" /\ ~promise.value[j].isHot
           /\ promise.value[j].starsToday >= promise.value[i].starsToday

----------------------------------------------------------------------------
(* Properties of generateTrendReport *)

\* C5: generateTrendReport starts all six fetchers before it waits for any
\* and returns only after all six have completed; in every order of
\* completion each section of the report is the result of its own fetcher,
\* and a fetcher whose requests fail yields an empty section while the report
\* is produced.
C5_FanOutFanIn ==
    /\ pc # "rejected"
    /\ pc # "idle" => \A f \in Fetchers : calls[f].state # "notcalled"
    /\ pc = "returned" =>
           \A f \in Fetchers :
               /\ calls[f].state = "fulfilled"
               /\ report[f] = FetchOf(f, ReportLimit(f), SourceAnswer(f, served[f])).value
               /\ RequestsFailed(f, SourceAnswer(f, served[f])) => report[f] = <<>>

\* the report is returned with the Reddit section empty, Reddit's requests
\* having failed, and the five other sections filled
C5_Witness ==
    /\ pc = "returned"
    /\ served["reddit"] = "down"
    /\ report["reddit"] = <<>>
    /\ \A f \in Fetchers \ {"reddit"} : served[f] = "up" /\ report[f] # <<>>

\* C6 as stated: when one source does not respond and the five others do,
\* generateTrendReport still eventually returns a report, the section of the
\* silent source being empty.
C6_SlowSourceDegrades ==
    (Cardinality(slow) = 1) ~> (pc = "returned" /\ \A f \in slow : report[f] = <<>>)

\* C6 amended: only a failing source degrades to an empty section.  There is
\* no timeout: the report is never returned while a source stays silent, and
\* it is eventually returned when every source responds or fails.
C6_ReportWaitsForEverySource ==
    /\ [](slow # {} => pc # "returned")
    /\ (slow = {}) ~> (pc = "returned")

\* five fetchers have completed, one source stays silent, and
\* generateTrendReport is still waiting
C6_Witness ==
    /\ pc = "awaiting"
    /\ Cardinality(slow) = 1
    /\ \A f \in Fetchers \ slow : calls[f].state = "fulfilled"
    /\ \A f \in slow : calls[f].state = "pending"

\* the sections of the report that hold records, in the order of the report
FilledSections == SelectSeq(SectionOrder, LAMBDA f : report[f] # <<>>)

\* C11: createReportEmbeds returns the title block first, then one block for
\* each non-empty section and none for an empty one, in the order GitHub,
\* Hacker News, Reddit, arXiv, Hugging Face, Product Hunt, each block listing
\* the records of its section: between 1 and 7 blocks, which pushReport hands
\* to the target in exactly one send call.
C11_TitleThenFilledSections ==
    (pc = "returned" /\ pushed # "none") =>
        /\ Len(sends) = 1
        /\ Len(sends[1]) = 1 + Len(FilledSections)
        /\ Len(sends[1]) \in 1..7
        /\ sends[1][1].section = "title"
        /\ \A i \in 1..Len(FilledSections) :
               /\ sends[1][i + 1].section = FilledSections[i]
               /\ sends[1][i + 1].items = report[FilledSections[i]]

\* a report whose Reddit and arXiv sections are empty has been sent: the
\* title and four section blocks in one call
C11_Witness ==
    /\ pushed = "true"
    /\ report["reddit"] = <<>>
    /\ report["arxiv"] = <<>>
    /\ Len(FilledSections) = 4
    /\ Len(sends) = 1
    /\ Len(sends[1]) = 5

\* the records one subreddit supplies when its request succeeds
PostsOf(listing) ==
    IF listing.st = "ok" /\ ListingPosts(listing.rows).type = "return"
    THEN ListingPosts(listing.rows).value
    ELSE <<>>

\* no request of fetchReddit throws and no body fails to parse or to map
RedditNoException(resp) ==
    \A s \in 1..Subreddits :
        /\ resp[s].st \in {"ok", "notok"}
        /\ resp[s].st = "ok" => ListingPosts(resp[s].rows).type = "return"

RECURSIVE PostsThrough(_, _)
PostsThrough(resp, s) ==
    IF s = 0 THEN 0 ELSE PostsThrough(resp, s - 1) + Len(PostsOf(resp[s]))

\* the results of fetchGitHubTrending before its q-th search request, when
\* the requests before it raised nothing
RECURSIVE MergedBefore(_, _, _)
MergedBefore(lim, resp, q) ==
    IF q = 1 THEN OssResults(lim, resp.oss)
    ELSE LET prev == MergedBefore(lim, resp, q - 1)
         IN  IF resp.search[q - 1].st = "ok"
             THEN PushSearchItems(prev, resp.search[q - 1].rows)
             ELSE prev

\* the q-th search request is made: the results are short of the limit before
\* every request up to it and no request before it raised an exception
SearchRequestMade(lim, resp, q) ==
    \A p \in 1..q :
        /\ Len(MergedBefore(lim, resp, p)) < lim
        /\ p < q => resp.search[p].st \in {"ok", "notok"}

\* C19: partial results are discarded on an exception: if a request of
\* fetchReddit throws, the result is the empty sequence even when earlier
\* subreddits were fetched, and if a GitHub Search request throws, the result
\* is the empty sequence even when OSS Insight had supplied records; a
\* non-OK status of one subreddit or search query only skips that request,
\* as an empty listing would, and the other records are kept.
C19_ThrowDiscardsNotOkSkips ==
    /\ (fetcher = "reddit" /\ Fulfilled) =>
          /\ (\E s \in 1..Subreddits : response[s].st = "throw") => promise.value = <<>>
          /\ \A s \in 1..Subreddits :
                response[s].st = "notok" =>
                    promise.value = fetchReddit(limit, [response EXCEPT ![s] = Ok(<<>>)]).value
          /\ RedditNoException(response) =>
                Len(promise.value) = Min(limit, PostsThrough(response, Subreddits))
    /\ (fetcher = "github" /\ Fulfilled) =>
          /\ (\E q \in 1..SearchQueries :
                 SearchRequestMade(limit, response, q) /\ response.search[q].st = "throw")
                => promise.value = <<>>
          /\ \A q \in 1..SearchQueries :
                response.search[q].st = "notok" =>
                    promise.value =
                        fetchGitHubTrending(limit,
                            [response EXCEPT !.search[q] = Ok(<<>>)]).value
          /\ (\A q \in 1..SearchQueries : response.search[q].st \in {"ok", "notok"}) =>
                Len(promise.value) =
                    Min(limit, Len(MergedBefore(limit, response, SearchQueries + 1)))

\* the first subreddit supplied two records, the second answered with a
\* non-OK status, the third request threw: the call resolved to the empty
\* sequence
C19_Witness ==
    /\ fetcher = "reddit" /\ Fulfilled
    /\ Len(PostsOf(response[1])) = 2
    /\ response[2].st = "notok"
    /\ response[3].st = "throw"
    /\ promise.value = <<>>

\* a subreddit answered with a non-OK status and the records of the others
\* were returned
C19_SkippedSubredditKeepsOthers ==
    /\ fetcher = "reddit" /\ Fulfilled
    /\ response[1].st = "notok"
    /\ RedditNoException(response)
    /\ Len(promise.value) >= 2

\* a search query answered with a non-OK status and the records of OSS
\* Insight and of another query were returned
C19_SkippedQueryKeepsOthers ==
    /\ fetcher = "github" /\ Fulfilled
    /\ Len(OssResults(limit, response.oss)) = 1
    /\ response.search[1].st = "notok"
    /\ response.search[2].st = "ok"
    /\ Len(promise.value) >= 2

----------------------------------------------------------------------------
(* Properties of the scheduler and of the subscriber set *)

\* whatever the ticks, at most one push round starts per calendar date and slot
OneRoundPerSlot == \A s \in Slots : started[s] <= 1

\* C7: the scheduled push runs at most once per slot: for any sequence of
\* timer ticks with non-decreasing clock readings at most one push round
\* starts per calendar date and slot, so each subscriber and the default
\* channel receive at most one scheduled report per slot.
C7_AtMostOncePerSlot ==
    \A s \in Slots :
        /\ started[s] <= 1
        /\ \A x \in Targets : received[x][s] <= 1

\* C8: a user is in the subscriber set exactly when the user's most recent
\* subscription command was a subscribe; repeating a command changes
\* nothing, and no other command and no other user's command changes the
\* user's membership.
C8_MembershipFollowsLastCommand ==
    /\ \A u \in Users : (u \in Range(subscribers)) <=> (lastCmd[u] = "subscribe")
    /\ Len(subscribers) = Cardinality(Range(subscribers))

\* u2 is subscribed and u1, who subscribed too, has unsubscribed since
C8_Witness ==
    /\ subscribers = <<"u2">>
    /\ lastCmd["u1"] = "unsubscribe"
    /\ handled = MaxCommands


\* C12: in a push round a failed fetch or delivery for one target does not
\* stop the round: checkScheduledPush never throws, and when the round of a
\* slot has returned a delivery was attempted for every subscriber who stayed
\* subscribed from the round's start to its end and, when defaultChannelId is
\* configured, for the default channel.
C12_FailureDoesNotStopRound ==
    \A s \in Slots :
        /\ finished[s] # "threw"
        /\ started[s] > 0 <=> finished[s] # "none"
        /\ finished[s] = "returned" =>
               /\ \A u \in steady[s] : attempted[u][s] >= 1
               /\ defaultChannel => attempted["channel"][s] >= 1

\* a round has returned in which the delivery to the first of two subscribers
\* failed, the second subscriber got the report, and the delivery to the
\* default channel was attempted and failed
C12_Witness ==
    \E s \in Slots :
        /\ finished[s] = "returned"
        /\ steady[s] = Users
        /\ subscribers = <<"u1", "u2">>
        /\ attempted["u1"][s] = 1 /\ received["u1"][s] = 0
        /\ attempted["u2"][s] = 1 /\ received["u2"][s] = 1
        /\ attempted["channel"][s] = 1 /\ received["channel"][s] = 0

\* the scheduled instants whose round has started, in the order of the clock
StartedInstants ==
    {t \in Instants : ScheduleMatches(t) /\ started[SlotOf(t)] > 0}

\* C17: pushedSlots never holds more than 10 keys, and the key of every round
\* that has started is in it after the pruning: the pruning removes the
\* oldest keys only, so that the keys of the rounds started are the last
\* ones, in the order of their starts, behind the newest earlier keys.
C17_PruneKeepsNewest ==
    /\ Len(pushedSlots) <= 10
    /\ Len(pushedSlots) = Cardinality(Range(pushedSlots))
    /\ \A t \in StartedInstants : HasSlot(pushedSlots, SlotKey(t))
    /\ \A t, u \in StartedInstants :
          t < u => IndexOf(pushedSlots, SlotKey(t)) < IndexOf(pushedSlots, SlotKey(u))
    /\ LET k == Cardinality(StartedInstants)
       IN  Len(pushedSlots) > k =>
               /\ Len(pushedSlots) = 10
               /\ SubSeq(pushedSlots, 1, 10 - k) = SubSeq(EarlierKeys(10), k + 1, 10)

\* both rounds of the day have started with ten earlier keys in the set: the
\* two oldest keys are gone, the two new ones are the last
C17_Witness ==
    /\ Len(pushedSlots) = 10
    /\ Cardinality(StartedInstants) = 2
    /\ pushedSlots[1] = EarlierKeys(10)[3]
    /\ pushedSlots[9] = SlotKey(8 * MinutesPerHour)
    /\ pushedSlots[10] = SlotKey(20 * MinutesPerHour)

\* a user who unsubscribes during a round before their turn, and does not
\* subscribe again, receives no report in that round
LeftBeforeTurnGetsNone ==
    \A s \in Slots : \A u \in Users :
        change[s][u] = "left" => attempted[u][s] = 0 /\ received[u][s] = 0

\* C18: subscription changes that interleave with a running push round take
\* effect inside that round: a user who unsubscribes before their own turn
\* receives no report in that round, a user who subscribes during the round
\* is delivered to in that round, and no user receives more than one report
\* in the round.
C18_ChangesTakeEffectInRound ==
    \A s \in Slots : \A u \in Users :
        /\ change[s][u] = "left" => received[u][s] = 0
        /\ finished[s] = "returned" /\ change[s][u] = "joined" => attempted[u][s] >= 1
        /\ received[u][s] <= 1

\* u1 has unsubscribed and subscribed again while the round delivered to u1,
\* and the round has delivered to u1 twice
C18_TwoReportsInOneRound ==
    \E s \in Slots :
        /\ started[s] = 1
        /\ change[s]["u1"] = "joined"
        /\ received["u1"][s] = 2

\* u2 has subscribed while the round delivered to the default channel, and
\* the round has returned without a delivery to u2
C18_LateSubscriberMissed ==
    \E s \in Slots :
        /\ finished[s] = "returned"
        /\ change[s]["u2"] = "joined"
        /\ attempted["u2"][s] = 0

----------------------------------------------------------------------------
(* Properties of handleMessage *)

\* the texts, as typed, that ask for one source
TypedFor(f) ==
    CASE f = "github"      -> {"!github", "!GitHub "}
      [] f = "hackerNews"  -> {"!hn", "!hackernews", " !HN"}
      [] f = "reddit"      -> {"!reddit"}
      [] f = "arxiv"       -> {"!arxiv", "!paper", "!Paper"}
      [] f = "huggingface" -> {"!hf", "!huggingface"}

\* texts that are no command
NoCommand == {"hello", "!github now"}

\* C13: a single-source command, matched whatever its case and surrounding
\* blanks, calls its own fetcher and no other and sends exactly one reply: the
\* error message when the fetcher returned the empty sequence, otherwise one
\* block listing the records in the fetcher's order; one branch runs per
\* message, and a text that is no command gets the introduction reply.
C13_OneBranchOneReply ==
    /\ hpc # "idle" => Len(branch) = 1
    /\ \A f \in SingleSource :
          typed \in TypedFor(f) =>
              /\ branch = <<f>>
              /\ fetched = <<[fetcher |-> f, limit |-> CommandLimit(f)]>>
              /\ pc = "idle"
              /\ hpc = "fetching" => replies = <<>>
              /\ hpc = "done" =>
                    /\ Len(replies) = 1
                    /\ (got = <<>>) => replies[1] = ErrorReply(f)
                    /\ (got # <<>>) => replies[1] = EmbedReply(f, got)
    /\ typed \in NoCommand =>
          /\ branch = <<"default">>
          /\ fetched = <<>>
          /\ replies = <<TextReply("default")>>

\* " !HN" was answered with the error message, Hacker News being down
C13_Witness ==
    /\ typed = " !HN"
    /\ hpc = "done"
    /\ got = <<>>
    /\ replies = <<ErrorReply("hackerNews")>>

----------------------------------------------------------------------------
(* Properties of getAIReply *)

\* the user messages that contain a search keyword
WithKeyword == {<<"jin", "tian", "tian", "qi">>, <<"chang", "shi", "jian">>}

RequestsTo(dest) == {i \in 1..Len(requests) : requests[i].to = dest}

\* C14: getAIReply never throws and returns the reply text or null; it
\* searches the web at most once, exactly when the message contains a search
\* keyword, and before the completion request; it sends exactly one completion
\* request whether the search succeeded, failed or found nothing; the system
\* prompt carries search context only when the search returned a result; and
\* it returns null when the completion request fails, is not OK or has no
\* content.
C14_OneCompletionNeverThrows ==
    /\ aiReply.type # "throw"
    /\ Cardinality(RequestsTo("search")) <= 1
    /\ rpc # "idle" => (RequestsTo("search") # {} <=> userMessage \in WithKeyword)
    /\ RequestsTo("search") \subseteq {1}
    /\ rpc \in {"completing", "done"} => Cardinality(RequestsTo("completion")) = 1
    /\ rpc \in {"idle", "searching"} => RequestsTo("completion") = {}
    /\ \A i \in RequestsTo("completion") :
          /\ requests[i].user = userMessage
          /\ requests[i].system # <<>> =>
                /\ userMessage \in WithKeyword
                /\ searchResp.st = "ok"
                /\ Len(searchResp.rows) >= 1
    /\ rpc = "done" =>
          /\ aiReply.type = "return"
          /\ aiReply.value \in {Null, Text(<<"reply">>)}
          /\ aiReply.value = Text(<<"reply">>)
                <=> (complResp.st = "ok" /\ complResp.content = "reply")
    /\ rpc # "done" => aiReply = ReplyRunning

\* the search request threw; the completion request was sent all the same,
\* without search context, and its reply was returned
C14_Witness ==
    /\ rpc = "done"
    /\ userMessage = <<"jin", "tian", "tian", "qi">>
    /\ searchResp = Failed("throw")
    /\ Len(requests) = 2
    /\ requests[2] = CompletionRequest(<<>>, userMessage)
    /\ aiReply = Return(Text(<<"reply">>))

----------------------------------------------------------------------------
(* Properties of the sync script *)

\* the paths followed that match the exclude list
ExcludedPaths ==
    {p \in Paths : p[1].name \in {".env", "debug.log", "node_modules"}}

RepoOnlyPaths == {p \in Paths : p[1].name \in {"README.md", ".gitignore"}}

\* the command whose run is the step
StepOf(ops) == IF ops = <<>> THEN "none" ELSE ops[Len(ops)]

\* push deletes no file of the repo and leaves README.md and .gitignore of
\* the repo as they are
PushKeepsRepo ==
    StepOf(lastOps') = "push" =>
        \A e \in SYNC_MAP :
            /\ repoDir[e].exists => repoDir'[e].exists
            /\ \A p \in Paths : repoDir[e].files[p] # "none" => repoDir'[e].files[p] # "none"
            /\ \A p \in RepoOnlyPaths : repoDir'[e].files[p] = repoDir[e].files[p]

\* no command writes or removes a path of the exclude list, on either side
ExcludedUntouched ==
    \A e \in SYNC_MAP : \A p \in ExcludedPaths :
        /\ repoDir'[e].files[p] = repoDir[e].files[p]
        /\ openclawDir'[e].files[p] = openclawDir[e].files[p]

\* after a pull every mapped directory of the repo that exists has the same
\* non-excluded files in ~/.openclaw
PullEqualises ==
    StepOf(lastOps) = "pull" =>
        \A e \in SYNC_MAP :
            repoDir[e].exists =>
                /\ openclawDir[e].exists
                /\ \A p \in Paths \ ExcludedPaths :
                       openclawDir[e].files[p] = repoDir[e].files[p]

\* a push followed by a pull changes ~/.openclaw when a mapped directory of
\* the repo held a non-excluded file that ~/.openclaw lacked
RoundTripAddsRepoFiles ==
    lastOps = <<"push", "pull">> =>
        ((\E e \in SYNC_MAP : \E p \in Paths \ ExcludedPaths :
              pushRepo[e].files[p] # "none" /\ pushLocal[e].files[p] = "none")
            => openclawDir # pushLocal)

\* C15: push deletes no file of the repo and does not overwrite its README.md
\* and .gitignore; neither pull nor push copies a path of the exclude list;
\* pull makes the non-excluded content of each mapped ~/.openclaw directory
\* equal to that of its repo directory, removing what the repo lacks; so a
\* push followed by a pull is not the identity on ~/.openclaw when the repo
\* holds files that ~/.openclaw lacks.
C15_PushKeepsPullMirrors ==
    /\ [][PushKeepsRepo /\ ExcludedUntouched]_vars
    /\ [](PullEqualises /\ RoundTripAddsRepoFiles)

\* after push and pull: bot.js, which only the repo had, is in ~/.openclaw;
\* README.md of the repo was not overwritten and replaced the local one; .env
\* stayed where it was, in ~/.openclaw only
C15_Witness ==
    LET e      == "agents/ai-trends"
        readme == <<[name |-> "README.md", ext |-> "md"]>>
        env    == <<[name |-> ".env", ext |-> "env"]>>
    IN  /\ lastOps = <<"push", "pull">>
        /\ pushRepo[e].files[BotJs] = "r" /\ pushLocal[e].files[BotJs] = "none"
        /\ openclawDir[e].files[BotJs] = "r"
        /\ pushRepo[e].files[readme] = "r" /\ pushLocal[e].files[readme] = "l"
        /\ repoDir[e].files[readme] = "r" /\ openclawDir[e].files[readme] = "r"
        /\ repoDir[e].files[env] = "none" /\ openclawDir[e].files[env] = "l"

----------------------------------------------------------------------------
(* Properties of the MessageCreate handler *)

\* C9: of the events carrying one message id that arrive within DEDUP_TIMEOUT
\* of the first, exactly the first reaches handleMessage; later ones are
\* skipped, also while the first is still being handled (the id is in
\* processedMessages from the first event on), the id leaves the set when its
\* timer of DEDUP_TIMEOUT fires, and the set is empty once no event has
\* arrived for DEDUP_TIMEOUT.
C9_DedupWithinTimeout ==
    /\ \A id \in MsgIds :
          /\ invoked[id] <= 1
          /\ id \in inHandler => invoked[id] = 1
          /\ (~Message(id).bot /\ firstAt[id] >= 0 /\ now < firstAt[id] + DEDUP_TIMEOUT)
                => id \in processedMessages
          /\ id \in processedMessages
                => \E t \in timers : /\ t.id = id
                                     /\ now <= t.due
                                     /\ t.due <= lastEventAt + DEDUP_TIMEOUT
    /\ (now > lastEventAt + DEDUP_TIMEOUT) => processedMessages = {}

\* a duplicate of m1 arrived while m1 was being handled and was skipped, and
\* DEDUP_TIMEOUT after the last event the set has been emptied
C9_Witness ==
    /\ "m1" \in dupWhileHandling
    /\ invoked["m1"] = 1
    /\ firstAt["m2"] > firstAt["m1"]
    /\ now > lastEventAt + DEDUP_TIMEOUT
    /\ processedMessages = {}

\* C16: a message of a bot and a message that is neither a direct message
\* nor a mention never reach handleMessage, so that they get no reply and
\* leave the subscribers and pushedSlots as they are (both carry !unsubscribe
\* here, and are the only ones to); the message of the bot leaves
\* processedMessages as it is, the other one is recorded in it.
C16_OnlyAddressedUsersAreHandled ==
    /\ \A id \in {"m3", "m4"} :
          /\ id \notin inHandler
          /\ invoked[id] = 0
    /\ "m3" \notin processedMessages
    /\ \A t \in timers : t.id # "m3"
    /\ (firstAt["m4"] >= 0 /\ now < firstAt["m4"] + DEDUP_TIMEOUT) => "m4" \in processedMessages
    /\ \A u \in Users : lastCmd[u] # "unsubscribe"
    /\ "u1" \in Range(subscribers) <=> firstAt["m1"] >= 0
    /\ "u2" \in Range(subscribers) <=> firstAt["m2"] >= 0
    /\ pushedSlots = <<>>

\* both users have subscribed, and the events of m3 and m4 have arrived too:
\* m4 is recorded, m3 is not, and both users are still subscribed
C16_Witness ==
    /\ subscribers = <<"u1", "u2">>
    /\ arrived = MsgIds
    /\ firstAt["m4"] > firstAt["m2"]
    /\ "m4" \in processedMessages
    /\ "m3" \notin processedMessages
    /\ inHandler = {}

============================================================================
